---- MODULE Spec2Model ----
(***************************************************************************)
(* A model of the sf-cli-seedbuddy seeding pipeline: the command's routing *)
(* (src/commands/seedbuddy/seed.ts, lib/interactive.ts), the six-stage     *)
(* driver runSeeder and its stage functions (lib/seeder.ts), and the       *)
(* schema/query helpers they use (lib/schema.ts, lib/query.ts).            *)
(*                                                                         *)
(* One action is one stretch of code between two awaits that matter: a     *)
(* stage's query-and-prepare part, one bulk request of a write, one file   *)
(* transfer.  The SIGINT handler may run between any two of them.          *)
(***************************************************************************)
EXTENDS Integers, Sequences, FiniteSets, TLC

(***************************************************************************)
(* Sizes.  The source sets BATCH_SIZE = QUERY_CHUNK_SIZE = 200             *)
(* (lib/types.ts); the model keeps the two names but scales them down so   *)
(* that a write of a handful of records already spans several bulk         *)
(* requests.  The core query returns BATCH_SIZE + 1 records, so the core   *)
(* write always needs two requests, whatever the scale.                    *)
(***************************************************************************)
BATCH_SIZE == 2

QUERY_CHUNK_SIZE == 2

NCore == BATCH_SIZE + 1

\* How many times the operator invokes the command on the same orgs (SpecRerun).
MaxRuns == 2

(***************************************************************************)
(* Values.  Salesforce ids carry their object type (the key prefix), and   *)
(* the ids of the two orgs are disjoint.  null and undefined are kept      *)
(* apart, as the code tests both.                                          *)
(***************************************************************************)
Sid(o, n) == [org |-> "src", o |-> o, n |-> n]

Tid(o, n) == [org |-> "tgt", o |-> o, n |-> n]

NULL == [org |-> "null", o |-> "", n |-> 0]

UNDEFINED == [org |-> "undefined", o |-> "", n |-> 0]

\* A non-reference field value (a name, a subject).
Plain == [org |-> "value", o |-> "", n |-> 0]

\* JavaScript truthiness of a field value: `if (val)`.
Truthy(v) == v.org \notin {"null", "undefined"}

Min(a, b) == IF a < b THEN a ELSE b

\* A slice that runs to the end of the array.
Slice_ToEnd(arr, i, size) == SubSeq(arr, i + 1, Len(arr))

\* arr.slice(i, i + size) with a 0-based offset i.
Slice(arr, i, size) == SubSeq(arr, i + 1, Min(i + size, Len(arr)))

Range(s) == {s[k] : k \in 1..Len(s)}

\* A set of ids of one object as an array, in the order the org returns them.
RECURSIVE SeqOfSet(_)
SeqOfSet(S) ==
    IF S = {} THEN <<>>
    ELSE LET x == CHOOSE y \in S : \A z \in S : y.n <= z.n
         IN <<x>> \o SeqOfSet(S \ {x})

\* A set as an array, in some fixed order.
RECURSIVE SetToSeq(_)
SetToSeq(S) ==
    IF S = {} THEN <<>>
    ELSE LET x == CHOOSE y \in S : TRUE IN <<x>> \o SetToSeq(S \ {x})

\* [...new Set(arr)]: the distinct elements of an array, each at its first place.
RECURSIVE Distinct(_)
\* The array as it is, repeated elements kept.
Distinct_KeepsAll(arr) == arr

Distinct(arr) ==
    IF Len(arr) = 0 THEN <<>>
    ELSE LET rest == Distinct(SubSeq(arr, 1, Len(arr) - 1))
             x == arr[Len(arr)]
         IN IF x \in Range(rest) THEN rest ELSE Append(rest, x)

(***************************************************************************)
(* lib/types.ts: the fixed sets.                                           *)
(***************************************************************************)
SYSTEM_READONLY_FIELDS ==
    {"Id", "IsDeleted", "CreatedDate", "CreatedById", "LastModifiedDate",
     "LastModifiedById", "SystemModstamp", "LastActivityDate",
     "LastViewedDate", "LastReferencedDate"}

ACTIVITY_SYSTEM_FIELDS ==
    SYSTEM_READONLY_FIELDS \cup
    {"IsClosed", "IsArchived", "IsRecurrence", "IsHighPriority", "TaskSubtype",
     "EventSubtype", "IsGroupEvent", "GroupEventType", "IsChild",
     "IsAllDayEvent", "IsReminderSet", "RecurrenceActivityId"}

SYSTEM_LOOKUP_OBJECTS ==
    {"User", "Group", "Organization", "Profile", "UserRole", "PermissionSet",
     "PermissionSetGroup", "ConnectedApplication", "RecordType",
     "BusinessProcess", "ApexClass", "ApexTrigger", "CustomPermission",
     "EmailTemplate", "Folder", "ListView", "Layout", "BusinessHours",
     "Entitlement", "EntitlementTemplate", "Milestone", "MilestoneType",
     "SlaProcess", "Territory2", "Territory2Model", "Territory2Type",
     "CurrencyType", "DatedConversionRate", "Division", "QueueSobject",
     "Calendar", "CollaborationGroup", "Network", "Site", "Community",
     "BrandTemplate", "DandBCompany", "PartnerRole", "DuplicateRecordSet",
     "DuplicateRecordItem", "DuplicateRule", "MatchingRule", "Period",
     "FiscalYearSettings"}

EXCLUDED_CHILD_OBJECTS ==
    {"Task", "Event", "ContentDocumentLink", "FeedItem", "FeedComment",
     "TopicAssignment", "EntitySubscription", "NetworkUserHistoryRecent"}

(***************************************************************************)
(* The source org's schema, as conn.describe() returns it; the target's    *)
(* differs from it in a few places (TargetDescribe below).  Account        *)
(* carries one field of every bucket the core classifier knows: ParentId   *)
(* (self-reference), OwnerId (system), Region__c (an optional data         *)
(* dependency on the custom object Region) and Zone__c (a required one, on *)
(* the custom object Zone), and three polymorphic lookups that are empty   *)
(* in every record: Partner__c (the core object or a user), Territory__c   *)
(* (two custom objects) and Mixed__c (a custom object or a user).  Region  *)
(* has lookups of its own: to its parent Region and to a Country.          *)
(***************************************************************************)
Field(name, type, createable, nillable, referenceTo) ==
    [name |-> name, type |-> type, createable |-> createable,
     nillable |-> nillable, referenceTo |-> referenceTo]

Describe(obj) ==
    CASE obj = "Account" ->
           {Field("Id", "id", FALSE, FALSE, {}),
            Field("Name", "string", TRUE, FALSE, {}),
            Field("External_Id__c", "string", TRUE, TRUE, {}),
            Field("BillingAddress", "address", TRUE, TRUE, {}),
            Field("ParentId", "reference", TRUE, TRUE, {"Account"}),
            Field("OwnerId", "reference", TRUE, FALSE, {"User"}),
            Field("Region__c", "reference", TRUE, TRUE, {"Region"}),
            Field("Zone__c", "reference", TRUE, FALSE, {"Zone"}),
            Field("Partner__c", "reference", TRUE, TRUE, {"Account", "User"}),
            Field("Territory__c", "reference", TRUE, TRUE, {"Region", "Zone"}),
            Field("Mixed__c", "reference", TRUE, TRUE, {"Region", "User"})}
      [] obj = "Zone" ->
           {Field("Id", "id", FALSE, FALSE, {}),
            Field("Name", "string", TRUE, FALSE, {})}
      [] obj = "Region" ->
           {Field("Id", "id", FALSE, FALSE, {}),
            Field("Name", "string", TRUE, FALSE, {}),
            Field("Parent__c", "reference", TRUE, TRUE, {"Region"}),
            Field("Country__c", "reference", TRUE, TRUE, {"Country"}),
            Field("OwnerId", "reference", TRUE, FALSE, {"User"})}
      [] obj = "Contact" ->
           {Field("Id", "id", FALSE, FALSE, {}),
            Field("LastName", "string", TRUE, FALSE, {}),
            Field("External_Id__c", "string", TRUE, TRUE, {}),
            Field("AccountId", "reference", TRUE, FALSE, {"Account"}),
            Field("OwnerId", "reference", TRUE, FALSE, {"User"})}
      [] obj = "Case" ->
           {Field("Id", "id", FALSE, FALSE, {}),
            Field("Subject", "string", TRUE, TRUE, {}),
            Field("ContactId", "reference", TRUE, TRUE, {"Contact"}),
            Field("AccountId", "reference", TRUE, FALSE, {"Account"}),
            Field("OwnerId", "reference", TRUE, FALSE, {"Group", "User"})}
      [] obj = "CaseComment" ->
           {Field("Id", "id", FALSE, FALSE, {}),
            Field("CommentBody", "string", TRUE, TRUE, {}),
            Field("ParentId", "reference", TRUE, FALSE, {"Case"})}
      [] obj \in {"Task", "Event"} ->
           {Field("Id", "id", FALSE, FALSE, {}),
            Field("Subject", "string", TRUE, TRUE, {}),
            Field("IsClosed", "boolean", FALSE, FALSE, {}),
            Field("WhoId", "reference", TRUE, TRUE, {"Contact", "Lead"}),
            Field("WhatId", "reference", TRUE, TRUE, {"Account", "Case"}),
            Field("OwnerId", "reference", TRUE, FALSE, {"Group", "User"})}
      [] OTHER -> {}

(***************************************************************************)
(* The source org's data.  Account 0 exists in the source but lies outside *)
(* the core query's result (the WHERE clause or the LIMIT cuts it off).    *)
(* In the "tree" shape the accounts form a hierarchy that reaches out of   *)
(* the result, and account 1 refers to a Region record.                    *)
(***************************************************************************)
Acc(n) == Sid("Account", n)

SourceRecords(obj) ==
    CASE obj = "Account" -> {Acc(n) : n \in 0..NCore}
      [] obj = "Region"  -> {Sid("Region", 1)}
      [] obj = "Zone"    -> {Sid("Zone", 1)}
      [] obj = "Contact" -> {Sid("Contact", n) : n \in 1..3}
      [] obj = "Case"    -> {Sid("Case", 1), Sid("Case", 2)}
      [] obj = "CaseComment" -> {Sid("CaseComment", 1)}
      [] obj = "Task"    -> {Sid("Task", 1), Sid("Task", 2)}
      [] obj = "Event"   -> {Sid("Event", 1)}
      [] OTHER -> {}

\* The value of a field of a source record.
SrcVal(shape, r, f) ==
    CASE f = "Id" -> r
      [] f = "External_Id__c" -> [org |-> "value", o |-> r.o, n |-> r.n]
      [] r.o = "Account" /\ f = "ParentId" ->
           IF shape = "tree" /\ r.n \in 1..NCore THEN Acc(r.n - 1) ELSE NULL
      [] r.o = "Account" /\ f = "Region__c" ->
           IF shape = "tree" /\ r.n = 1 THEN Sid("Region", 1) ELSE NULL
      [] r.o = "Account" /\ f = "Zone__c" ->
           IF shape = "tree" THEN Sid("Zone", 1) ELSE NULL
      [] r.o = "Region" /\ f = "Parent__c" -> Sid("Region", 2)
      [] r.o = "Region" /\ f = "Country__c" -> Sid("Country", 1)
      [] r.o = "Contact" /\ f = "AccountId" ->
           IF r.n = 3 THEN Acc(0) ELSE Acc(r.n)
      [] r.o = "Case" /\ f = "ContactId" -> Sid("Contact", 1)
      [] r.o = "Case" /\ f = "AccountId" -> IF r.n = 1 THEN Acc(2) ELSE Acc(1)
      [] r.o = "CaseComment" /\ f = "ParentId" -> Sid("Case", 1)
      [] r.o = "Task" /\ f = "WhatId" -> IF r.n = 1 THEN Acc(1) ELSE NULL
      [] r.o = "Task" /\ f = "WhoId" -> Sid("Contact", r.n)
      [] r.o = "Event" /\ f = "WhatId" -> Acc(2)
      [] r.o = "Event" /\ f = "WhoId" -> NULL
      [] f = "OwnerId" -> Sid("User", 1)
      [] f \in {"Partner__c", "Territory__c", "Mixed__c"} -> NULL
      [] OTHER -> Plain

\* The source's ContentDocumentLink rows and latest ContentVersions.
SourceLinks ==
    <<[ContentDocumentId |-> Sid("ContentDocument", 1), LinkedEntityId |-> Acc(1)],
      [ContentDocumentId |-> Sid("ContentDocument", 1),
       LinkedEntityId |-> Sid("Contact", 1)]>>

SourceVersions ==
    <<[Id |-> Sid("ContentVersion", 1),
       ContentDocumentId |-> Sid("ContentDocument", 1)]>>

VARIABLES
    flags,      \* the command line: which of -s -t -o were given, and --dry-run
    runNo,      \* how many times the command has been invoked
    config,     \* the SeedConfig the command handed to runSeeder
    source,     \* the source org: what the core query returns, the data's shape
    target,     \* the target org: its records, its id counter, what it rejects
    pc,         \* where the run stands
    aborted,    \* the flag the SIGINT handler sets and shouldAbort reads
    idMaps,     \* the registry: object name -> (source id -> target id)
    results,    \* the SeedResults being filled
    errors,     \* the error log
    outcome,    \* how runSeeder ended
    job,        \* the bulk write in progress (batchInsert / batchUpsert)
    loop,       \* the driver's loop state: child and grandchild index, core ids
    core,       \* seedCoreObject's locals that outlive its awaits
    files,      \* seedFiles' locals that outlive its awaits
    log,        \* every call on a connection, probe of shouldAbort and SIGINT, in order
    prev,       \* what the previous invocation left behind (for comparing runs)
    received    \* what runSeeder's caller was handed: const results = await runSeeder(...)

vars == <<flags, runNo, config, source, target, pc, aborted, idMaps, results,
          errors, outcome, job, loop, core, files, log, prev, received>>

(***************************************************************************)
(* lib/schema.ts                                                           *)
(***************************************************************************)
\* The target org's schema where it differs from the source's: Event.WhatId
\* is not createable there, and Zone is as target.zone says: like the source's,
\* not createable, with no createable field in common with the source's, or
\* missing (its describe throws).
TargetDescribe(obj, sourceFields) ==
    CASE obj = "Event" ->
           {IF f.name = "WhatId" THEN [f EXCEPT !.createable = FALSE] ELSE f :
               f \in sourceFields}
      [] obj = "Zone" /\ target.zone = "notCreateable" ->
           {[f EXCEPT !.createable = FALSE] : f \in sourceFields}
      [] obj = "Zone" /\ target.zone = "noFields" ->
           {[f EXCEPT !.createable = FALSE] : f \in sourceFields} \cup
           {Field("Label__c", "string", TRUE, TRUE, {})}
      [] obj = "Zone" /\ target.zone = "throws" -> {}
      [] OTHER -> sourceFields

\* conn.describe(objectApiName) throws.
DescribeThrows(conn, objectApiName) ==
    conn = "target" /\ objectApiName = "Zone" /\ target.zone = "throws"

\* getObjectFields: the fields of the object on that connection.
getObjectFields(conn, objectApiName) ==
    IF conn = "target" THEN TargetDescribe(objectApiName, Describe(objectApiName))
    ELSE Describe(objectApiName)

getInsertableFieldNames(fields) ==
    {f.name : f \in {g \in fields :
        /\ g.createable
        /\ g.name \notin SYSTEM_READONLY_FIELDS
        /\ g.type \notin {"address", "location"}}}

findLookupFieldsToRemap(fields, objectsInScope) ==
    {f \in fields :
        /\ f.createable
        /\ f.referenceTo # {}
        /\ f.referenceTo \cap objectsInScope # {}}

\* sourceInsertable.filter((f) => targetCreateable.has(f)), as every tier computes it.
InsertableFields(objectApiName) ==
    getInsertableFieldNames(getObjectFields("source", objectApiName)) \cap
    {f.name : f \in {g \in getObjectFields("target", objectApiName) : g.createable}}

\* The activity stage's own filter (ACTIVITY_SYSTEM_FIELDS instead of the helper).
ActivityInsertableFields(activityType) ==
    {f.name : f \in {g \in getObjectFields("source", activityType) :
        /\ g.createable
        /\ g.name \notin ACTIVITY_SYSTEM_FIELDS
        /\ g.type \notin {"address", "location"}}} \cap
    {f.name : f \in {g \in getObjectFields("target", activityType) : g.createable}}

\* The createable reference fields of an object.
ReferenceFields(fields) ==
    {f \in fields : f.createable /\ f.referenceTo # {} /\ f.type = "reference"}

(***************************************************************************)
(* lib/query.ts                                                            *)
(***************************************************************************)
\* buildSelectFields: the projection as a set of names; Id is always in it.
buildSelectFields(fields, additionalFields) == fields \cup additionalFields \cup {"Id"}

\* A field of a queried record: undefined unless the query selected it.
RecVal(r, f, selectFields) ==
    IF f \in selectFields THEN SrcVal(source.shape, r, f) ELSE UNDEFINED

\* The chunks queryAllChunked cuts `values` into, in order.
RECURSIVE Chunks(_, _)
Chunks(values, chunkSize) ==
    IF Len(values) = 0 THEN <<>>
    ELSE <<Slice(values, 0, chunkSize)>> \o
         Chunks(SubSeq(values, Min(chunkSize, Len(values)) + 1, Len(values)), chunkSize)

\* SELECT ... FROM obj WHERE field IN (chunk), on the source org.
QueryIn(obj, field, chunk) ==
    SeqOfSet({r \in SourceRecords(obj) : SrcVal(source.shape, r, field) \in Range(chunk)})

RECURSIVE ConcatAll(_)
ConcatAll(seqs) ==
    IF Len(seqs) = 0 THEN <<>> ELSE Head(seqs) \o ConcatAll(Tail(seqs))

\* queryAllChunked for an IN query: every chunk's records, concatenated.
queryAllChunked(obj, field, values) ==
    LET cs == Chunks(values, QUERY_CHUNK_SIZE)
    IN ConcatAll([k \in 1..Len(cs) |-> QueryIn(obj, field, cs[k])])

(***************************************************************************)
(* The log.  One entry per call on a connection, per probe of shouldAbort  *)
(* and per SIGINT.  tier names the stage the call belongs to; field is the *)
(* field of a query's IN clause; recs holds the ids of that clause or the  *)
(* records of a bulk request; jobNo numbers the bulk writes of a run.      *)
(***************************************************************************)
Event(kind, tier, obj, field, recs, jobNo) ==
    [kind |-> kind, tier |-> tier, obj |-> obj, field |-> field, recs |-> recs,
     jobNo |-> jobNo]

\* The queries queryAllChunked sends, one per chunk.
ChunkQueries(tier, obj, field, values) ==
    LET cs == Chunks(values, QUERY_CHUNK_SIZE)
    IN [k \in 1..Len(cs) |-> Event("query", tier, obj, field, cs[k], 0)]

\* The queries queryAllChunked sends to the target for a writer's query-back.
TargetQueries(tier, obj, field, values, jobNo) ==
    [k \in 1..Len(Chunks(values, QUERY_CHUNK_SIZE)) |->
        Event("tquery", tier, obj, field, Chunks(values, QUERY_CHUNK_SIZE)[k], jobNo)]

(***************************************************************************)
(* lib/seeder.ts: the id maps.  A Map keeps its keys in insertion order,   *)
(* and so do the keys of the idMaps object; both are kept as arrays.       *)
(***************************************************************************)
MapHas(m, k) == \E i \in 1..Len(m) : m[i].k = k

MapGet(m, k) == m[CHOOSE i \in 1..Len(m) : m[i].k = k].v

\* Map.set: a new key goes last, a known key keeps its place and takes the new value.
MapSet(m, k, v) ==
    IF MapHas(m, k)
    THEN [i \in 1..Len(m) |-> IF m[i].k = k THEN [k |-> k, v |-> v] ELSE m[i]]
    ELSE Append(m, [k |-> k, v |-> v])

MapKeys(m) == [i \in 1..Len(m) |-> m[i].k]

HasIdMap(maps, obj) == \E i \in 1..Len(maps) : maps[i].name = obj

\* Every object sharing the registry's first map.
IdMapOf_First(maps, obj) == maps[1].map

IdMapOf(maps, obj) == maps[CHOOSE i \in 1..Len(maps) : maps[i].name = obj].map

\* idMaps[obj] = m
AssignIdMap(maps, obj, m) ==
    IF HasIdMap(maps, obj)
    THEN [i \in 1..Len(maps) |->
            IF maps[i].name = obj THEN [name |-> obj, map |-> m] ELSE maps[i]]
    ELSE Append(maps, [name |-> obj, map |-> m])

findInAnyIdMap(maps, sourceId) ==
    LET hits == {i \in 1..Len(maps) : MapHas(maps[i].map, sourceId)}
    IN IF hits = {} THEN UNDEFINED
       ELSE MapGet(maps[CHOOSE i \in hits : \A j \in hits : i <= j].map, sourceId)

getAllSourceIds(maps) == ConcatAll([i \in 1..Len(maps) |-> MapKeys(maps[i].map)])

\* A SeedError; the message text is left out.
SeedError(object, sourceId, stage) ==
    [object |-> object, sourceId |-> sourceId, stage |-> stage]

(***************************************************************************)
(* prepareRecord: the target-shaped record of source record r, or null     *)
(* with a "remap" error when a required in-scope lookup has no mapping.    *)
(***************************************************************************)
\* prepareRecord copying an in-scope lookup as it finds it.
PreparedField_NotRemapped(r, fieldName, selectFields, lookupFields, allReferenceFields, maps) ==
    LET value == RecVal(r, fieldName, selectFields)
        isLookup == \E f \in lookupFields : f.name = fieldName
    IN IF value = UNDEFINED THEN [kind |-> "absent", v |-> UNDEFINED]
       ELSE IF /\ \E f \in allReferenceFields : f.name = fieldName
               /\ ~isLookup
               /\ value # NULL
       THEN [kind |-> "absent", v |-> UNDEFINED]
       ELSE [kind |-> "value", v |-> value]

\* prepareRecord writing null for a required lookup it cannot remap.
PreparedField_NullsRequired(r, fieldName, selectFields, lookupFields, allReferenceFields, maps) ==
    LET value == RecVal(r, fieldName, selectFields)
        isLookup == \E f \in lookupFields : f.name = fieldName
        targetId == findInAnyIdMap(maps, value)
    IN IF value = UNDEFINED THEN [kind |-> "absent", v |-> UNDEFINED]
       ELSE IF isLookup /\ value # NULL
       THEN [kind |-> "value", v |-> IF Truthy(targetId) THEN targetId ELSE NULL]
       ELSE IF /\ \E f \in allReferenceFields : f.name = fieldName
               /\ value # NULL
       THEN [kind |-> "absent", v |-> UNDEFINED]
       ELSE [kind |-> "value", v |-> value]

\* What prepareRecord does with one field: "absent", "fail", or the value written.
PreparedField(r, fieldName, selectFields, lookupFields, allReferenceFields, maps) ==
    LET value == RecVal(r, fieldName, selectFields)
        isLookup == \E f \in lookupFields : f.name = fieldName
        lookupField == CHOOSE f \in lookupFields : f.name = fieldName
        targetId == findInAnyIdMap(maps, value)
    IN IF value = UNDEFINED THEN [kind |-> "absent", v |-> UNDEFINED]
       ELSE IF isLookup /\ value # NULL
       THEN IF Truthy(targetId) THEN [kind |-> "value", v |-> targetId]
            ELSE IF lookupField.nillable THEN [kind |-> "value", v |-> NULL]
            ELSE [kind |-> "fail", v |-> UNDEFINED]
       ELSE IF /\ \E f \in allReferenceFields : f.name = fieldName
               /\ ~isLookup
               /\ value # NULL
       THEN [kind |-> "absent", v |-> UNDEFINED]
       ELSE [kind |-> "value", v |-> value]

prepareRecord(r, selectFields, insertableFields, lookupFields, allReferenceFields, maps, objectApiName) ==
    LET out == [f \in insertableFields |->
                  PreparedField(r, f, selectFields, lookupFields,
                                allReferenceFields, maps)]
        kept == {f \in insertableFields : out[f].kind = "value"}
    IN IF \E f \in insertableFields : out[f].kind = "fail"
       THEN [ok |-> FALSE, rec |-> <<>>,
             errs |-> <<SeedError(objectApiName, r, "remap")>>]
       ELSE [ok |-> TRUE, rec |-> [f \in kept |-> out[f].v], errs |-> <<>>]

(***************************************************************************)
(* categorizeReferenceFields: the buckets of the core object's reference   *)
(* fields.  dependencyFields maps a field name to the object it pulls in.  *)
(***************************************************************************)
selfRefFieldCheck(f, objectApiName) ==
    f.createable /\ f.type = "reference" /\ objectApiName \in f.referenceTo

\* The classifier that looks for a single non-system target first.
Bucket_DependencyFirst(f, coreObjectApiName) ==
    LET nonSystemTargets == f.referenceTo \ SYSTEM_LOOKUP_OBJECTS
    IN IF f.referenceTo = {coreObjectApiName} THEN "self"
       ELSE IF nonSystemTargets = {} THEN "system"
       ELSE IF Cardinality(nonSystemTargets) = 1 THEN "dependency"
       ELSE IF coreObjectApiName \in f.referenceTo THEN "self"
       ELSE "system"

\* The bucket of one reference field: the first rule that matches decides.
Bucket(f, coreObjectApiName) ==
    LET nonSystemTargets == f.referenceTo \ SYSTEM_LOOKUP_OBJECTS
    IN IF f.referenceTo = {coreObjectApiName} THEN "self"
       ELSE IF nonSystemTargets = {} THEN "system"
       ELSE IF coreObjectApiName \in f.referenceTo THEN "self"
       ELSE IF Cardinality(nonSystemTargets) = 1 THEN "dependency"
       ELSE "system"

categorizeReferenceFields(fields, coreObjectApiName) ==
    LET refs == ReferenceFields(fields)
        deps == {f \in refs : Bucket(f, coreObjectApiName) = "dependency"}
    IN [systemFields |->
            {f.name : f \in {g \in refs : Bucket(g, coreObjectApiName) = "system"}},
        selfRefFields |->
            {f.name : f \in {g \in refs : Bucket(g, coreObjectApiName) = "self"}},
        dependencyFields |->
            [n \in {f.name : f \in deps} |->
                LET f == CHOOSE g \in deps : g.name = n
                IN CHOOSE t \in f.referenceTo \ SYSTEM_LOOKUP_OBJECTS : TRUE]]

(***************************************************************************)
(* batchInsert / batchUpsert.  A write is a job: the prepared records, the *)
(* parallel array of their source ids, the offset i of the next bulk       *)
(* request and the counters.  ret is where the caller goes on once the     *)
(* writer returns.  externalIdField = "" means batchInsert.                *)
(***************************************************************************)
\* The writer without its dry-run branch.
WriterDryRun_Off == FALSE

\* if (dryRun) return { inserted: records.length, failed: 0 }
WriterDryRun == config.dryRun

NewJob(tier, obj, records, sourceIds, externalIdField, ret, queried, skipped) ==
    [no |-> job.no + 1, tier |-> tier, obj |-> obj, recs |-> records,
     sourceIds |-> sourceIds, externalIdField |-> externalIdField, i |-> 0,
     inserted |-> IF WriterDryRun THEN Len(records) ELSE 0,
     updated |-> 0, failed |-> 0, ret |-> ret,
     queried |-> queried, skipped |-> skipped]

\* Where the run stands once the writer is called: in its loop, or past it.
PcOfJob(j) == IF WriterDryRun \/ Len(j.recs) = 0 THEN j.ret ELSE "batch"

\* The value of a prepared record's field, undefined when the key is absent.
FieldOf(rec, f) == IF f \in DOMAIN rec THEN rec[f] ELSE UNDEFINED

\* The target's answer for one record of a bulk create or upsert, applied to
\* the writer's state st: the id map, the counters, the errors, the target org.
OneResult(st, obj, externalIdField, rec, sid) ==
    LET v == FieldOf(rec, externalIdField)
        match == {t \in st.trecs : t.obj = obj /\ t.ext = v}
        newId == Tid(obj, st.next)
    IN IF sid \in target.rejects
       THEN [st EXCEPT !.failed = @ + 1,
                       !.errs = Append(@, SeedError(obj, sid,
                                   IF externalIdField = "" THEN "insert" ELSE "upsert"))]
       ELSE IF externalIdField # "" /\ Truthy(v) /\ match # {}
       THEN \* upsert matched a record: success, created = false
            [st EXCEPT !.updated = @ + 1,
                       !.map = IF st.retId
                               THEN MapSet(@, sid, (CHOOSE t \in match : TRUE).Id)
                               ELSE @]
       ELSE \* a new record: success with its id
            [st EXCEPT !.inserted = @ + 1,
                       !.map = MapSet(@, sid, newId),
                       !.trecs = @ \cup {[Id |-> newId, obj |-> obj,
                                          ext |-> FieldOf(rec, "External_Id__c")]},
                       !.next = @ + 1]

RECURSIVE ApplyResults(_, _, _, _, _)
ApplyResults(st, obj, externalIdField, batch, batchSourceIds) ==
    IF Len(batch) = 0 THEN st
    ELSE ApplyResults(OneResult(st, obj, externalIdField, Head(batch), Head(batchSourceIds)),
                      obj, externalIdField, Tail(batch), Tail(batchSourceIds))

\* batchUpsert's query-back: the batch's source ids still without an entry, and
\* the external-id value of each (of the first record with that source id).
MissingMappings(map, batchSourceIds) ==
    SelectSeq(batchSourceIds, LAMBDA sid : ~MapHas(map, sid))

ExtIdValueOf(sid, records, sourceIds, externalIdField) ==
    LET idx == CHOOSE i \in 1..Len(sourceIds) :
                  sourceIds[i] = sid /\ \A j \in 1..(i - 1) : sourceIds[j] # sid
    IN FieldOf(records[idx], externalIdField)

\* The query-back that registers nothing.
RegisterBack_Nothing(map, trecs, obj, missing, records, sourceIds, externalIdField) == map

RECURSIVE RegisterBack(_, _, _, _, _, _, _)
RegisterBack(map, trecs, obj, missing, records, sourceIds, externalIdField) ==
    IF Len(missing) = 0 THEN map
    ELSE LET sid == Head(missing)
             v == ExtIdValueOf(sid, records, sourceIds, externalIdField)
             found == {t \in trecs : t.obj = obj /\ t.ext = v}
             map1 == IF Truthy(v) /\ found # {}
                     THEN MapSet(map, sid, (CHOOSE t \in found : TRUE).Id)
                     ELSE map
         IN RegisterBack(map1, trecs, obj, Tail(missing), records, sourceIds,
                         externalIdField)

\* The query-back that finds no value to ask for.
BackQueryValues_None(map, batchSourceIds, records, sourceIds, externalIdField) == <<>>

\* The external-id values the query-back asks the target for.
BackQueryValues(map, batchSourceIds, records, sourceIds, externalIdField) ==
    LET missing == MissingMappings(map, batchSourceIds)
        vals == [k \in 1..Len(missing) |->
                    ExtIdValueOf(missing[k], records, sourceIds, externalIdField)]
    IN SelectSeq(vals, Truthy)

\* The writer returning after its first request.
AfterBatch_FirstOnly(i2) == job.ret

\* The loop leaving early once the abort flag is up.
AfterBatch_Abortable(i2) ==
    IF i2 < Len(job.recs) /\ ~aborted THEN "batch" ELSE job.ret

\* The writer's loop going round once more whatever its counter says.
AfterBatch_Again(i2) == "batch"

\* i += BATCH_SIZE; i < records.length: another pass, or back to the caller.
AfterBatch(i2) == IF i2 < Len(job.recs) THEN "batch" ELSE job.ret

\* One pass of the writer's loop: one bulk request and the handling of its results.
SubmitBatch ==
    /\ pc = "batch"
    /\ \E retId \in (IF job.externalIdField = "" THEN {TRUE} ELSE BOOLEAN) :
        LET batch == Slice(job.recs, job.i, BATCH_SIZE)
            batchSourceIds == Slice(job.sourceIds, job.i, BATCH_SIZE)
            st0 == [map |-> IdMapOf(idMaps, job.obj), inserted |-> job.inserted,
                    updated |-> job.updated, failed |-> job.failed, errs |-> <<>>,
                    trecs |-> target.recs, next |-> target.next, retId |-> retId]
            st == ApplyResults(st0, job.obj, job.externalIdField, batch, batchSourceIds)
            isUpsert == job.externalIdField # ""
            backVals == BackQueryValues(st.map, batchSourceIds, job.recs,
                                        job.sourceIds, job.externalIdField)
            map2 == IF isUpsert /\ Len(backVals) > 0
                    THEN RegisterBack(st.map, st.trecs, job.obj,
                                      MissingMappings(st.map, batchSourceIds),
                                      job.recs, job.sourceIds, job.externalIdField)
                    ELSE st.map
            i2 == job.i + BATCH_SIZE
        IN /\ idMaps' = AssignIdMap(idMaps, job.obj, map2)
           /\ target' = [target EXCEPT !.recs = st.trecs, !.next = st.next]
           /\ errors' = errors \o st.errs
           /\ job' = [job EXCEPT !.i = i2, !.inserted = st.inserted,
                                 !.updated = st.updated, !.failed = st.failed]
           /\ log' = log
                \o <<Event(IF isUpsert THEN "upsert" ELSE "create", job.tier, job.obj,
                           job.externalIdField, batch, job.no)>>
                \o (IF isUpsert /\ Len(backVals) > 0
                    THEN TargetQueries(job.tier, job.obj, job.externalIdField,
                                       backVals, job.no)
                    ELSE <<>>)
           /\ pc' = AfterBatch(i2)
    /\ UNCHANGED <<flags, runNo, config, source, aborted, results, outcome, loop,
                   core, files, prev, received>>

(***************************************************************************)
(* The command: src/commands/seedbuddy/seed.ts and lib/interactive.ts.     *)
(***************************************************************************)
\* describe(obj).childRelationships of the source org.
ChildRelationshipsRaw(obj) ==
    CASE obj = "Account" ->
           <<[childSObject |-> "Account", field |-> "ParentId"],
             [childSObject |-> "AccountHistory", field |-> "AccountId"],
             [childSObject |-> "Case", field |-> "AccountId"],
             [childSObject |-> "Contact", field |-> "AccountId"],
             [childSObject |-> "Event", field |-> "WhatId"],
             [childSObject |-> "Task", field |-> "WhatId"]>>
      [] obj = "Contact" ->
           <<[childSObject |-> "Case", field |-> "ContactId"],
             [childSObject |-> "Event", field |-> "WhoId"],
             [childSObject |-> "Task", field |-> "WhoId"]>>
      [] obj = "Case" ->
           <<[childSObject |-> "CaseComment", field |-> "ParentId"]>>
      [] OTHER -> <<>>

\* describeGlobal: the objects that are createable and queryable.
CreateableObjects ==
    {"Account", "Region", "Zone", "Contact", "Case", "CaseComment", "Task", "Event"}

\* The suffix test on the names this schema has.
HasExcludedSuffix(name) == name \in {"AccountHistory"}

\* getChildRelationships; the raw lists above are already sorted by child name.
getChildRelationships(obj) ==
    SelectSeq(ChildRelationshipsRaw(obj),
              LAMBDA rel : /\ rel.childSObject \notin EXCLUDED_CHILD_OBJECTS
                           /\ ~HasExcludedSuffix(rel.childSObject)
                           /\ rel.childSObject \in CreateableObjects
                           /\ rel.field # "")

\* The value of --count is a string; the model keeps it as its characters.
Digits == <<"0", "1", "2", "3", "4", "5", "6", "7", "8", "9">>

IsDigit(c) == \E i \in 1..Len(Digits) : Digits[i] = c

DigitValue(c) == (CHOOSE i \in 1..Len(Digits) : Digits[i] = c) - 1

\* String.prototype.toLowerCase on the letters the count strings have.
toLowerCase(str) ==
    [i \in 1..Len(str) |-> CASE str[i] = "A" -> "a"
                             [] str[i] = "L" -> "l"
                             [] OTHER -> str[i]]

\* The record count: 'All', a number, or NaN.
All == [kind |-> "All", n |-> 0]

NaN == [kind |-> "NaN", n |-> 0]

Num(k) == [kind |-> "number", n |-> k]

RECURSIVE DigitsValue(_, _)
DigitsValue(str, acc) ==
    IF Len(str) = 0 \/ ~IsDigit(Head(str)) THEN acc
    ELSE DigitsValue(Tail(str), acc * 10 + DigitValue(Head(str)))

\* parseInt(str, 10): an optional sign, then the longest run of digits, the
\* rest ignored; NaN when no digit follows the sign.
parseInt(str) ==
    LET signed == Len(str) > 0 /\ Head(str) \in {"-", "+"}
        body == IF signed THEN Tail(str) ELSE str
        v == DigitsValue(body, 0)
    IN IF Len(body) = 0 \/ ~IsDigit(Head(body)) THEN NaN
       ELSE Num(IF signed /\ Head(str) = "-" THEN 0 - v ELSE v)

\* runFlagMode: countStr.toLowerCase() === 'all' ? 'All' : parseInt(countStr, 10)
RecordCount(countStr) ==
    IF toLowerCase(countStr) = <<"a", "l", "l">> THEN All ELSE parseInt(countStr)

\* The truthiness of a number | 'All' in `limit && ...`.
JsTruthy(limit) == limit.kind = "All" \/ (limit.kind = "number" /\ limit.n # 0)

\* The query that gets a LIMIT whenever the count is not 'All'.
buildSeedQuery_AlwaysLimited(objectApiName, limit) ==
    [obj |-> objectApiName, hasLimit |-> limit.kind # "All", limit |-> limit.n]

\* buildSeedQuery without a WHERE clause (none of the command lines has -w):
\* if (limit && limit !== 'All') soql += ` LIMIT ${limit}`
buildSeedQuery(objectApiName, limit) ==
    [obj |-> objectApiName,
     hasLimit |-> JsTruthy(limit) /\ limit.kind # "All",
     limit |-> IF JsTruthy(limit) /\ limit.kind # "All" THEN limit.n ELSE 0]

\* What the source answers to the core query: LIMIT n cuts the result short.
queryAll(soql) ==
    IF soql.hasLimit /\ soql.limit < Len(source.coreRecs)
    THEN SubSeq(source.coreRecs, 1, soql.limit)
    ELSE source.coreRecs

ChildConfig(objectApiName, lookupField, grandchildren) ==
    [objectApiName |-> objectApiName, lookupField |-> lookupField,
     externalIdField |-> "", grandchildren |-> grandchildren]

\* runFlagMode: the children named by -c, each with its detected lookup field.
RECURSIVE FlagChildren(_, _)
FlagChildren(childNames, objectApiName) ==
    IF Len(childNames) = 0 THEN <<>>
    ELSE LET childName == Head(childNames)
             rels == SelectSeq(getChildRelationships(objectApiName),
                               LAMBDA r : r.childSObject = childName)
             lookups == {f \in getObjectFields("source", childName) :
                            objectApiName \in f.referenceTo /\ f.createable}
             rest == FlagChildren(Tail(childNames), objectApiName)
         IN IF Len(rels) > 0
            THEN <<ChildConfig(childName, rels[1].field, <<>>)>> \o rest
            ELSE IF lookups # {}
            THEN <<ChildConfig(childName, (CHOOSE f \in lookups : TRUE).name, <<>>)>>
                 \o rest
            ELSE rest

\* runFlagMode: each grandchild named by -g goes to the first child that has it.
RECURSIVE FlagGrandchildren(_, _)
FlagGrandchildren(children, gcNames) ==
    IF Len(gcNames) = 0 THEN children
    ELSE LET gcName == Head(gcNames)
             relOf(k) == SelectSeq(getChildRelationships(children[k].objectApiName),
                                   LAMBDA r : r.childSObject = gcName)
             owners == {k \in 1..Len(children) : Len(relOf(k)) > 0}
             first == CHOOSE k \in owners : \A j \in owners : k <= j
             attached ==
                 IF owners = {} THEN children
                 ELSE [children EXCEPT ![first].grandchildren =
                         Append(@, [objectApiName |-> gcName,
                                    lookupField |-> relOf(first)[1].field,
                                    parentChildObject |-> children[first].objectApiName,
                                    externalIdField |-> ""])]
         IN FlagGrandchildren(attached, Tail(gcNames))

\* Seed.run: flag mode needs all of -s, -t and -o.
hasAllRequired == flags.s /\ flags.t /\ flags.o

\* The SeedConfig runFlagMode builds from the flags.
FlagConfig ==
    LET selectedChildren == FlagChildren(flags.c, "Account")
    IN [coreObject |-> [objectApiName |-> "Account", externalIdField |-> flags.u],
        children |-> IF Len(selectedChildren) > 0
                     THEN FlagGrandchildren(selectedChildren, flags.g)
                     ELSE selectedChildren,
        includeTasks |-> flags.tasks, includeEvents |-> flags.events,
        includeFiles |-> flags.files, recordCount |-> RecordCount(flags.n),
        dryRun |-> flags.dry]

\* What the operator may answer in the prompts of startSeeding: the children
\* come from getChildRelationships, the grandchildren from the children's.
InteractiveAnswers ==
    {[children |-> <<>>, all |-> FALSE],
     [children |-> <<ChildConfig("Contact", "AccountId",
                       <<[objectApiName |-> "Case", lookupField |-> "ContactId",
                          parentChildObject |-> "Contact", externalIdField |-> ""]>>)>>,
      all |-> TRUE]}

\* The SeedConfig startSeeding builds from the prompts.
InteractiveConfig(ans) ==
    [coreObject |-> [objectApiName |-> "Account", externalIdField |-> ""],
     children |-> ans.children,
     includeTasks |-> ans.all, includeEvents |-> ans.all, includeFiles |-> ans.all,
     recordCount |-> Num(10), dryRun |-> FALSE]

ZeroResult(objectApiName) ==
    [objectApiName |-> objectApiName, queried |-> 0, inserted |-> 0, updated |-> 0,
     failed |-> 0, skipped |-> 0]

\* tasks / events / files = null
NullResult ==
    [objectApiName |-> "null", queried |-> 0, inserted |-> 0, updated |-> 0,
     failed |-> 0, skipped |-> 0]

NullFiles ==
    [filesFound |-> -1, filesUploaded |-> -1, filesFailed |-> -1, linksCreated |-> -1]

\* runSeeder's first lines: empty registry, empty results.
InitialResults ==
    [coreObject |-> ZeroResult(""), children |-> <<>>, grandchildren |-> <<>>,
     tasks |-> NullResult, events |-> NullResult, files |-> NullFiles]

NoJob ==
    [no |-> 0, tier |-> "", obj |-> "", recs |-> <<>>, sourceIds |-> <<>>,
     externalIdField |-> "", i |-> 0, inserted |-> 0, updated |-> 0, failed |-> 0,
     ret |-> "", queried |-> 0, skipped |-> 0]

NoLoop == [ci |-> 1, gi |-> 1, coreSourceIds |-> <<>>]

NoCore ==
    [sourceRecords |-> <<>>, selectFields |-> {}, systemFields |-> {},
     selfRefFields |-> {}, dependencyFields |-> <<>>, deps |-> <<>>,
     allRecordsToInsert |-> <<>>, updates |-> <<>>, ui |-> 0,
     soql |-> [obj |-> "", hasLimit |-> FALSE, limit |-> 0]]

NoFiles ==
    [links |-> <<>>, versions |-> <<>>, vi |-> 0, filesUploaded |-> 0,
     filesFailed |-> 0, docMap |-> <<>>, newLinks |-> <<>>, li |-> 0,
     linksCreated |-> 0]

\* The caller's `results` before runSeeder has returned.
NotReceived == [results |-> InitialResults, errors |-> <<>>, bound |-> FALSE]

\* Seed.run with all of -s -t -o: runFlagMode installs the SIGINT handler and
\* calls runSeeder.
RunFlagMode ==
    /\ pc = "idle"
    /\ hasAllRequired
    /\ config' = FlagConfig
    /\ aborted' = FALSE
    /\ pc' = "stage1"
    /\ UNCHANGED <<flags, runNo, source, target, idMaps, results, errors, outcome,
                   job, loop, core, files, log, prev, received>>

\* Seed.run otherwise: runInteractive, the menu, then startSeeding.  Only the
\* two org flags are handed over; everything else is asked for.
StartSeeding ==
    /\ pc = "idle"
    /\ ~hasAllRequired
    /\ \E ans \in InteractiveAnswers : config' = InteractiveConfig(ans)
    /\ aborted' = FALSE
    /\ pc' = "stage1"
    /\ UNCHANGED <<flags, runNo, source, target, idMaps, results, errors, outcome,
                   job, loop, core, files, log, prev, received>>

(***************************************************************************)
(* runSeeder: the order of the stages.  A stage that is switched off is    *)
(* passed over without a probe of shouldAbort.                             *)
(***************************************************************************)
\* A probe that never sees the flag.
shouldAbort_Never == FALSE

\* config.shouldAbort?.() with shouldAbort: () => aborted
shouldAbort == aborted

Probe(tier) == Event("probe", tier, "", "", <<>>, 0)

\* A call on a connection that rejects (the awaited promise throws).
Thrown(tier, obj) == Event("throw", tier, obj, "", <<>>, 0)

\* config.children.flatMap((c) => c.grandchildren)
Grandchildren ==
    ConcatAll([k \in 1..Len(config.children) |-> config.children[k].grandchildren])

ToFiles == IF config.includeFiles THEN "files" ELSE "done"

ToEvents == IF config.includeEvents THEN "events" ELSE ToFiles

ToTasks == IF config.includeTasks THEN "tasks" ELSE ToEvents

\* The grandchild loop at index gi, or what follows it.
ToGrandchildren(gi) == IF gi <= Len(Grandchildren) THEN "grandchildren" ELSE ToTasks

\* The child loop at index ci, or what follows it.
ToChildren(ci) == IF ci <= Len(config.children) THEN "children" ELSE ToGrandchildren(1)

\* runSeeder's `return results` at its end, or the run still going.
OutcomeAt(p) == IF p = "done" THEN "complete" ELSE outcome

(***************************************************************************)
(* Stage 1: seedCoreObject.                                                *)
(***************************************************************************)
CoreName == config.coreObject.objectApiName

\* The values of `field` over the records, truthy ones only, in record order.
FieldValues(records, field, selectFields) ==
    SelectSeq([k \in 1..Len(records) |-> RecVal(records[k], field, selectFields)],
              Truthy)

\* seedDependencyObjects: the ids the core records reference in object depObjectName.
DependencyIds(depObjectName, dependencyFields, records, selectFields) ==
    LET fs == SetToSeq({f \in DOMAIN dependencyFields :
                           dependencyFields[f] = depObjectName})
    IN Distinct(ConcatAll([k \in 1..Len(fs) |->
                              FieldValues(records, fs[k], selectFields)]))

\* seedCoreObject up to its first write: describe, query, classify.
SeedCoreStart ==
    /\ pc = "stage1"
    /\ LET sourceFields == getObjectFields("source", CoreName)
           insertableFields == InsertableFields(CoreName)
           selectFields == buildSelectFields(insertableFields, {})
           soql == buildSeedQuery(CoreName, config.recordCount)
           sourceRecords == queryAll(soql)
           cats == categorizeReferenceFields(
                       {f \in sourceFields : \/ f.name \in insertableFields
                                             \/ selfRefFieldCheck(f, CoreName)},
                       CoreName)
       IN /\ log' = Append(log, Event("query", "core", CoreName, "", <<>>, 0))
          /\ IF Len(sourceRecords) = 0
             THEN /\ results' = [results EXCEPT !.coreObject = ZeroResult(CoreName)]
                  /\ pc' = "check1"
                  /\ core' = [core EXCEPT !.soql = soql]
             ELSE /\ core' = [core EXCEPT
                        !.soql = soql,
                        !.sourceRecords = sourceRecords,
                        !.selectFields = selectFields,
                        !.systemFields = cats.systemFields,
                        !.selfRefFields = cats.selfRefFields,
                        !.dependencyFields = cats.dependencyFields,
                        !.deps = SetToSeq({cats.dependencyFields[f] :
                                              f \in DOMAIN cats.dependencyFields})]
                  /\ pc' = "deps"
                  /\ results' = results
    /\ UNCHANGED <<flags, runNo, config, source, target, aborted, idMaps, errors,
                   outcome, job, loop, files, prev, received>>

\* The dependency record as written: every non-null reference field stripped.
\* The dependency record with its reference fields copied as the source has them.
DependencyRecord_KeepsReferences(r, depInsertableFields, depRefFieldNames, selectFields) ==
    [f \in {g \in depInsertableFields : RecVal(r, g, selectFields) # UNDEFINED} |->
        RecVal(r, f, selectFields)]

DependencyRecord(r, depInsertableFields, depRefFieldNames, selectFields) ==
    LET kept == {f \in depInsertableFields :
                    /\ RecVal(r, f, selectFields) # UNDEFINED
                    /\ ~(f \in depRefFieldNames /\ RecVal(r, f, selectFields) # NULL)}
    IN [f \in kept |-> RecVal(r, f, selectFields)]

\* seedDependencyObjects: one pass of its loop over the objects to pull in.
PullDependency ==
    /\ pc = "deps"
    /\ Len(core.deps) > 0
    /\ LET depObjectName == Head(core.deps)
           idsArray == DependencyIds(depObjectName, core.dependencyFields,
                                     core.sourceRecords, core.selectFields)
           depSourceFields == getObjectFields("source", depObjectName)
           depInsertableFields == InsertableFields(depObjectName)
           depSelectFields == buildSelectFields(depInsertableFields, {})
           depRecords == queryAllChunked(depObjectName, "Id", idsArray)
           depRefFieldNames == {f.name : f \in ReferenceFields(depSourceFields)}
           depPrepared == [k \in 1..Len(depRecords) |->
                              DependencyRecord(depRecords[k], depInsertableFields,
                                               depRefFieldNames, depSelectFields)]
           newJob == NewJob("core", depObjectName, depPrepared, depRecords, "",
                            "deps", Len(depRecords), 0)
           depTargetCreateable ==
               \E f \in getObjectFields("target", depObjectName) : f.createable
           \* dependencyFields.delete(fieldName) for the fields that point at the object
           stripped == [f \in {g \in DOMAIN core.dependencyFields :
                                  core.dependencyFields[g] # depObjectName} |->
                           core.dependencyFields[f]]
       IN IF Len(idsArray) = 0 \/ HasIdMap(idMaps, depObjectName)
          THEN /\ core' = [core EXCEPT !.deps = Tail(@)]
               /\ UNCHANGED <<idMaps, job, log, pc>>
          ELSE IF \/ DescribeThrows("target", depObjectName)
                  \/ ~depTargetCreateable
                  \/ depInsertableFields = {}
          THEN /\ core' = [core EXCEPT !.deps = Tail(@), !.dependencyFields = stripped]
               /\ UNCHANGED <<idMaps, job, log, pc>>
          ELSE /\ core' = [core EXCEPT !.deps = Tail(@)]
               /\ log' = log \o ChunkQueries("core", depObjectName, "Id", idsArray)
               /\ IF Len(depRecords) = 0
                  THEN UNCHANGED <<idMaps, job, pc>>
                  ELSE /\ idMaps' = AssignIdMap(idMaps, depObjectName, <<>>)
                       /\ job' = newJob
                       /\ pc' = PcOfJob(newJob)
    /\ UNCHANGED <<flags, runNo, config, source, target, aborted, results, errors,
                   outcome, loop, files, prev, received>>

\* The self-reference targets that lie outside the queried records.
ExtraParentIds(sourceRecords, selfRefFields, selectFields) ==
    LET fs == SetToSeq(selfRefFields)
        vals == ConcatAll([k \in 1..Len(fs) |->
                              FieldValues(sourceRecords, fs[k], selectFields)])
    IN Distinct(SelectSeq(vals, LAMBDA v : v \notin Range(sourceRecords)))

\* The core record as written: system lookups stripped, self-references left
\* to the update pass, dependency lookups remapped.
\* The core record with its self-reference fields copied as the source has them.
CoreRecord_KeepsSelfRef(r, insertableFields, sourceFields, maps) ==
    [f \in {g \in insertableFields : RecVal(r, g, core.selectFields) # UNDEFINED} |->
        RecVal(r, f, core.selectFields)]

CoreRecord(r, insertableFields, sourceFields, maps) ==
    LET val(f) == RecVal(r, f, core.selectFields)
        isDep(f) == f \in DOMAIN core.dependencyFields /\ val(f) # NULL
        targetId(f) == findInAnyIdMap(maps, val(f))
        nillable(f) == \E g \in sourceFields : g.name = f /\ g.nillable
        kept == {f \in insertableFields :
                    /\ val(f) # UNDEFINED
                    /\ ~(f \in core.systemFields /\ val(f) # NULL)
                    /\ f \notin core.selfRefFields
                    /\ (isDep(f) => (Truthy(targetId(f)) \/ nillable(f)))}
    IN [f \in kept |->
          IF isDep(f)
          THEN (IF Truthy(targetId(f)) THEN targetId(f) ELSE NULL)
          ELSE val(f)]

\* seedCoreObject from the pull of outside parents to the call of the writer.
CorePrepare ==
    /\ pc = "deps"
    /\ Len(core.deps) = 0
    /\ LET extraParentIds == ExtraParentIds(core.sourceRecords, core.selfRefFields,
                                            core.selectFields)
           extraParents == queryAllChunked(CoreName, "Id", extraParentIds)
           allRecordsToInsert == extraParents \o core.sourceRecords
           maps == AssignIdMap(idMaps, CoreName, <<>>)
           prepared == [k \in 1..Len(allRecordsToInsert) |->
                           CoreRecord(allRecordsToInsert[k], InsertableFields(CoreName),
                                      getObjectFields("source", CoreName), maps)]
           newJob == NewJob("core", CoreName, prepared, allRecordsToInsert,
                            config.coreObject.externalIdField, "core_written",
                            Len(core.sourceRecords), 0)
       IN /\ log' = log \o ChunkQueries("core", CoreName, "Id", extraParentIds)
          /\ idMaps' = maps
          /\ core' = [core EXCEPT !.allRecordsToInsert = allRecordsToInsert]
          /\ job' = newJob
          /\ pc' = PcOfJob(newJob)
    /\ UNCHANGED <<flags, runNo, config, source, target, aborted, results, errors,
                   outcome, loop, files, prev, received>>

\* The update list with a record for every written core record, resolvable
\* self-reference or not.
SelfRefUpdates_All(allRecordsToInsert, selfRefFields, selectFields, coreIdMap) ==
    LET resolvable(r) == {f \in selfRefFields :
                             /\ Truthy(RecVal(r, f, selectFields))
                             /\ MapHas(coreIdMap, RecVal(r, f, selectFields))}
        withEntry == SelectSeq(allRecordsToInsert, LAMBDA r : MapHas(coreIdMap, r))
    IN [k \in 1..Len(withEntry) |->
          [f \in resolvable(withEntry[k]) \cup {"Id"} |->
              IF f = "Id" THEN MapGet(coreIdMap, withEntry[k])
              ELSE MapGet(coreIdMap, RecVal(withEntry[k], f, selectFields))]]

\* The post-insert update list: one record per written core record with at
\* least one self-reference that the core id map resolves.
SelfRefUpdates(allRecordsToInsert, selfRefFields, selectFields, coreIdMap) ==
    LET resolvable(r) == {f \in selfRefFields :
                             /\ Truthy(RecVal(r, f, selectFields))
                             /\ MapHas(coreIdMap, RecVal(r, f, selectFields))}
        updateRec(r) ==
            [f \in resolvable(r) \cup {"Id"} |->
                IF f = "Id" THEN MapGet(coreIdMap, r)
                ELSE MapGet(coreIdMap, RecVal(r, f, selectFields))]
        withUpdate == SelectSeq(allRecordsToInsert,
                                LAMBDA r : MapHas(coreIdMap, r) /\ resolvable(r) # {})
    IN [k \in 1..Len(withUpdate) |-> updateRec(withUpdate[k])]

CoreResult ==
    [objectApiName |-> CoreName, queried |-> Len(core.sourceRecords),
     inserted |-> job.inserted, updated |-> job.updated, failed |-> job.failed,
     skipped |-> 0]

\* seedCoreObject after the writer has returned: build the self-reference updates.
CoreSelfRef ==
    /\ pc = "core_written"
    /\ LET coreIdMap == IdMapOf(idMaps, CoreName)
           updates == SelfRefUpdates(core.allRecordsToInsert, core.selfRefFields,
                                     core.selectFields, coreIdMap)
       IN IF /\ core.selfRefFields # {}
             /\ Len(coreIdMap) > 0
             /\ ~config.dryRun
             /\ Len(updates) > 0
          THEN /\ core' = [core EXCEPT !.updates = updates, !.ui = 0]
               /\ pc' = "core_update"
               /\ results' = results
          ELSE /\ results' = [results EXCEPT !.coreObject = CoreResult]
               /\ pc' = "check1"
               /\ core' = core
    /\ UNCHANGED <<flags, runNo, config, source, target, aborted, idMaps, errors,
                   outcome, job, loop, files, log, prev, received>>

\* One bulk update of the self-reference pass; the target accepts the batch
\* or refuses its records, and a refusal is only written to the error log.
CoreUpdateBatch ==
    /\ pc = "core_update"
    /\ \E ok \in BOOLEAN :
        LET batch == Slice(core.updates, core.ui, BATCH_SIZE)
            ui2 == core.ui + BATCH_SIZE
        IN /\ log' = Append(log, Event("update", "core", CoreName, "", batch, 0))
           /\ errors' = errors \o
                          (IF ok THEN <<>>
                           ELSE [k \in 1..Len(batch) |->
                                   SeedError(CoreName, UNDEFINED, "self-ref update")])
           /\ core' = [core EXCEPT !.ui = ui2]
           /\ IF ui2 < Len(core.updates)
              THEN UNCHANGED <<pc, results>>
              ELSE /\ results' = [results EXCEPT !.coreObject = CoreResult]
                   /\ pc' = "check1"
    /\ UNCHANGED <<flags, runNo, config, source, target, aborted, idMaps,
                   outcome, job, loop, files, prev, received>>

\* [...(idMaps[core]?.keys() ?? [])]
CoreSourceIds ==
    IF HasIdMap(idMaps, CoreName) THEN MapKeys(IdMapOf(idMaps, CoreName)) ELSE <<>>

\* The test with !config.dryRun left out.
CoreEmpty_IgnoresDryRun ==
    results.coreObject.inserted = 0 /\ results.coreObject.updated = 0

\* inserted === 0 && updated === 0 && !config.dryRun
CoreEmpty ==
    /\ results.coreObject.inserted = 0
    /\ results.coreObject.updated = 0
    /\ ~config.dryRun

\* runSeeder between Stage 1 and Stage 2: the abort probe, then the test for
\* an empty core result.
AfterCore ==
    /\ pc = "check1"
    /\ log' = Append(log, Probe("core"))
    /\ IF shouldAbort
       THEN /\ pc' = "done"
            /\ outcome' = "partial"
            /\ loop' = loop
       ELSE IF CoreEmpty
       THEN /\ pc' = "done"
            /\ outcome' = "early"
            /\ loop' = loop
       ELSE /\ loop' = [ci |-> 1, gi |-> 1, coreSourceIds |-> CoreSourceIds]
            /\ pc' = ToChildren(1)
            /\ outcome' = OutcomeAt(ToChildren(1))
    /\ UNCHANGED <<flags, runNo, config, source, target, aborted, idMaps, results,
                   errors, job, core, files, prev, received>>

(***************************************************************************)
(* Stages 2 and 3: seedRelatedObject.                                      *)
(***************************************************************************)
\* Object.keys(idMaps)
ObjectsInScope(maps) == {maps[i].name : i \in 1..Len(maps)}

\* seedRelatedObject up to the call of the writer: what it queried, the maps
\* after it made sure the object has one, the records it prepared, the errors.
Related(tier, objectApiName, lookupField, parentSourceIds, externalIdField, ret) ==
    LET maps == IF HasIdMap(idMaps, objectApiName) THEN idMaps
                ELSE AssignIdMap(idMaps, objectApiName, <<>>)
        \* the loop over sourceRecords that calls prepareRecord
        Prepare(sourceFields, insertableFields, sourceRecords) ==
            [k \in 1..Len(sourceRecords) |->
                prepareRecord(sourceRecords[k], buildSelectFields(insertableFields, {}),
                              insertableFields,
                              findLookupFieldsToRemap(sourceFields, ObjectsInScope(idMaps)),
                              ReferenceFields(sourceFields), maps, objectApiName)]
        \* what the loop leaves, and the three ways on from it
        Outcome(sourceRecords, preps, okIdx) ==
            LET prepared == [k \in 1..Len(okIdx) |-> preps[okIdx[k]].rec]
                preparedSourceIds == [k \in 1..Len(okIdx) |-> sourceRecords[okIdx[k]]]
                skipped == Len(sourceRecords) - Len(okIdx)
            IN [queries |-> ChunkQueries(tier, objectApiName, lookupField,
                                         parentSourceIds),
                queried |-> Len(sourceRecords),
                maps |-> IF Len(sourceRecords) = 0 THEN idMaps ELSE maps,
                errs |-> ConcatAll([k \in 1..Len(sourceRecords) |-> preps[k].errs]),
                \* it returns without calling the writer: nothing found, or all skipped
                direct |-> Len(sourceRecords) = 0 \/ Len(okIdx) = 0,
                result |-> [objectApiName |-> objectApiName,
                            queried |-> Len(sourceRecords),
                            inserted |-> 0, updated |-> 0, failed |-> 0,
                            skipped |-> IF Len(sourceRecords) = 0 THEN 0 ELSE skipped],
                job |-> NewJob(tier, objectApiName, prepared, preparedSourceIds,
                               externalIdField, ret, Len(sourceRecords), skipped)]
        Prepared(sourceRecords, preps) ==
            Outcome(sourceRecords, preps,
                    SelectSeq([k \in 1..Len(sourceRecords) |-> k],
                              LAMBDA k : preps[k].ok))
        Queried(sourceRecords) ==
            Prepared(sourceRecords,
                     Prepare(getObjectFields("source", objectApiName),
                             InsertableFields(objectApiName), sourceRecords))
    IN Queried(queryAllChunked(objectApiName, lookupField, parentSourceIds))

\* The ObjectSeedResult seedRelatedObject returns after the writer.
JobResult ==
    [objectApiName |-> job.obj, queried |-> job.queried, inserted |-> job.inserted,
     updated |-> job.updated, failed |-> job.failed, skipped |-> job.skipped]

\* One pass of the child loop: the probe, then seedRelatedObject up to its write.
ChildStart ==
    /\ pc = "children"
    /\ LET child == config.children[loop.ci]
           seeded == Related("child", child.objectApiName, child.lookupField,
                          loop.coreSourceIds, child.externalIdField, "child_written")
       IN IF shouldAbort
          THEN /\ log' = Append(log, Probe("child"))
               /\ pc' = "done"
               /\ outcome' = "partial"
               /\ UNCHANGED <<idMaps, errors, results, job, loop>>
          ELSE \E rel \in {seeded} :
               /\ log' = Append(log, Probe("child")) \o rel.queries
               /\ idMaps' = rel.maps
               /\ errors' = errors \o rel.errs
               /\ IF rel.direct
                  THEN /\ results' = [results EXCEPT !.children = Append(@, rel.result)]
                       /\ loop' = [loop EXCEPT !.ci = @ + 1]
                       /\ pc' = ToChildren(loop.ci + 1)
                       /\ outcome' = OutcomeAt(ToChildren(loop.ci + 1))
                       /\ job' = job
                  ELSE /\ job' = rel.job
                       /\ pc' = PcOfJob(rel.job)
                       /\ UNCHANGED <<results, loop, outcome>>
    /\ UNCHANGED <<flags, runNo, config, source, target, aborted, core, files, prev, received>>

\* The child loop after seedRelatedObject returned: results.children.push(...).
ChildDone ==
    /\ pc = "child_written"
    /\ results' = [results EXCEPT !.children = Append(@, JobResult)]
    /\ loop' = [loop EXCEPT !.ci = @ + 1]
    /\ pc' = ToChildren(loop.ci + 1)
    /\ outcome' = OutcomeAt(ToChildren(loop.ci + 1))
    /\ UNCHANGED <<flags, runNo, config, source, target, aborted, idMaps, errors,
                   job, core, files, log, prev, received>>

\* One pass of the grandchild loop: the probe, the test of the parent's id map,
\* then seedRelatedObject up to its write.
\* The grandchild loop's test with the size test left out.
ParentSeeded_IfPresent(maps, parentChildObject) == HasIdMap(maps, parentChildObject)

\* The parent child object has a registry and the registry is not empty.
ParentSeeded(maps, parentChildObject) ==
    /\ HasIdMap(maps, parentChildObject)
    /\ Len(IdMapOf(maps, parentChildObject)) > 0

GrandchildStart ==
    /\ pc = "grandchildren"
    /\ LET gc == Grandchildren[loop.gi]
           hasParent == ParentSeeded(idMaps, gc.parentChildObject)
           parentSourceIds == MapKeys(IdMapOf(idMaps, gc.parentChildObject))
           seeded == Related("grandchild", gc.objectApiName, gc.lookupField,
                          parentSourceIds, gc.externalIdField, "grandchild_written")
       IN IF shouldAbort
          THEN /\ log' = Append(log, Probe("grandchild"))
               /\ pc' = "done"
               /\ outcome' = "partial"
               /\ UNCHANGED <<idMaps, errors, results, job, loop>>
          ELSE IF ~hasParent
          THEN /\ log' = Append(log, Probe("grandchild"))
               /\ loop' = [loop EXCEPT !.gi = @ + 1]
               /\ pc' = ToGrandchildren(loop.gi + 1)
               /\ outcome' = OutcomeAt(ToGrandchildren(loop.gi + 1))
               /\ UNCHANGED <<idMaps, errors, results, job>>
          ELSE \E rel \in {seeded} :
               /\ log' = Append(log, Probe("grandchild")) \o rel.queries
               /\ idMaps' = rel.maps
               /\ errors' = errors \o rel.errs
               /\ IF rel.direct
                  THEN /\ results' = [results EXCEPT
                                        !.grandchildren = Append(@, rel.result)]
                       /\ loop' = [loop EXCEPT !.gi = @ + 1]
                       /\ pc' = ToGrandchildren(loop.gi + 1)
                       /\ outcome' = OutcomeAt(ToGrandchildren(loop.gi + 1))
                       /\ job' = job
                  ELSE /\ job' = rel.job
                       /\ pc' = PcOfJob(rel.job)
                       /\ UNCHANGED <<results, loop, outcome>>
    /\ UNCHANGED <<flags, runNo, config, source, target, aborted, core, files, prev, received>>

GrandchildDone ==
    /\ pc = "grandchild_written"
    /\ results' = [results EXCEPT !.grandchildren = Append(@, JobResult)]
    /\ loop' = [loop EXCEPT !.gi = @ + 1]
    /\ pc' = ToGrandchildren(loop.gi + 1)
    /\ outcome' = OutcomeAt(ToGrandchildren(loop.gi + 1))
    /\ UNCHANGED <<flags, runNo, config, source, target, aborted, idMaps, errors,
                   job, core, files, log, prev, received>>

(***************************************************************************)
(* Stages 4 and 5: seedActivities.                                         *)
(***************************************************************************)
\* The record seedActivities prepares: the insertable fields as they are, then
\* WhatId and WhoId remapped through any id map, null when not found.
\* The activity record with an id it cannot remap left as it is.
ActivityRecord_KeepsUnmapped(rec, insertableFields, selectFields, maps) ==
    LET copied == {f \in insertableFields : RecVal(rec, f, selectFields) # UNDEFINED}
        poly == {f \in {"WhatId", "WhoId"} : Truthy(RecVal(rec, f, selectFields))}
    IN [f \in copied \cup poly |->
          IF f \in poly /\ Truthy(findInAnyIdMap(maps, RecVal(rec, f, selectFields)))
          THEN findInAnyIdMap(maps, RecVal(rec, f, selectFields))
          ELSE RecVal(rec, f, selectFields)]

ActivityRecord(rec, insertableFields, selectFields, maps) ==
    LET copied == {f \in insertableFields : RecVal(rec, f, selectFields) # UNDEFINED}
        poly == {f \in {"WhatId", "WhoId"} : Truthy(RecVal(rec, f, selectFields))}
    IN [f \in copied \cup poly |->
          IF f \in poly
          THEN LET t == findInAnyIdMap(maps, RecVal(rec, f, selectFields))
               IN IF Truthy(t) THEN t ELSE NULL
          ELSE RecVal(rec, f, selectFields)]

ActivityTier(activityType) == IF activityType = "Task" THEN "task" ELSE "event"

\* The driver going back to the Task stage after the Event stage.
AfterActivity_Restart(activityType) ==
    IF activityType = "Task" THEN ToEvents ELSE ToTasks

AfterActivity(activityType) == IF activityType = "Task" THEN ToEvents ELSE ToFiles

SetActivityResult(res, activityType, r) ==
    IF activityType = "Task" THEN [res EXCEPT !.tasks = r] ELSE [res EXCEPT !.events = r]

\* Stage 4 or 5 of runSeeder: the probe, then seedActivities up to its write.
ActivityStart(activityType) ==
    /\ pc = (IF activityType = "Task" THEN "tasks" ELSE "events")
    /\ LET tier == ActivityTier(activityType)
           insertableFields == ActivityInsertableFields(activityType)
           selectFields == buildSelectFields(insertableFields, {"WhatId", "WhoId"})
           allSourceIds == getAllSourceIds(idMaps)
           whatRecords == queryAllChunked(activityType, "WhatId", allSourceIds)
           whoRecords == queryAllChunked(activityType, "WhoId", allSourceIds)
           sourceRecords == Distinct(whatRecords \o whoRecords)
           maps == AssignIdMap(idMaps, activityType, <<>>)
           prepared == [k \in 1..Len(sourceRecords) |->
                          ActivityRecord(sourceRecords[k], insertableFields,
                                         selectFields, maps)]
           newJob == NewJob(tier, activityType, prepared, sourceRecords, "",
                            "activity_written", Len(sourceRecords), 0)
           next == AfterActivity(activityType)
       IN IF shouldAbort
          THEN /\ log' = Append(log, Probe(tier))
               /\ pc' = "done"
               /\ outcome' = "partial"
               /\ UNCHANGED <<idMaps, results, job>>
          ELSE IF Len(allSourceIds) = 0
          THEN /\ log' = Append(log, Probe(tier))
               /\ results' = SetActivityResult(results, activityType,
                                               ZeroResult(activityType))
               /\ pc' = next
               /\ outcome' = OutcomeAt(next)
               /\ UNCHANGED <<idMaps, job>>
          ELSE /\ log' = Append(log, Probe(tier))
                           \o ChunkQueries(tier, activityType, "WhatId", allSourceIds)
                           \o ChunkQueries(tier, activityType, "WhoId", allSourceIds)
               /\ IF Len(sourceRecords) = 0
                  THEN /\ results' = SetActivityResult(results, activityType,
                                                       ZeroResult(activityType))
                       /\ pc' = next
                       /\ outcome' = OutcomeAt(next)
                       /\ UNCHANGED <<idMaps, job>>
                  ELSE /\ idMaps' = maps
                       /\ job' = newJob
                       /\ pc' = PcOfJob(newJob)
                       /\ UNCHANGED <<results, outcome>>
    /\ UNCHANGED <<flags, runNo, config, source, target, aborted, errors, loop,
                   core, files, prev, received>>

\* seedActivities after the writer, and runSeeder's results.tasks / .events = ...
ActivityDone ==
    /\ pc = "activity_written"
    /\ results' = SetActivityResult(results, job.obj, JobResult)
    /\ pc' = AfterActivity(job.obj)
    /\ outcome' = OutcomeAt(AfterActivity(job.obj))
    /\ UNCHANGED <<flags, runNo, config, source, target, aborted, idMaps, errors,
                   job, loop, core, files, log, prev, received>>

(***************************************************************************)
(* Stage 6: seedFiles.                                                     *)
(***************************************************************************)
\* ContentDocumentLink WHERE LinkedEntityId IN chunk, chunk after chunk.
QueryLinks(values) ==
    LET cs == Chunks(values, QUERY_CHUNK_SIZE)
    IN ConcatAll([k \in 1..Len(cs) |->
          SelectSeq(SourceLinks, LAMBDA l : l.LinkedEntityId \in Range(cs[k]))])

\* ContentVersion WHERE ContentDocumentId IN chunk AND IsLatestVersion = true.
QueryVersions(values) ==
    LET cs == Chunks(values, QUERY_CHUNK_SIZE)
    IN ConcatAll([k \in 1..Len(cs) |->
          SelectSeq(SourceVersions, LAMBDA v : v.ContentDocumentId \in Range(cs[k]))])

FileResult(found, uploaded, failed, linksCreated) ==
    [filesFound |-> found, filesUploaded |-> uploaded, filesFailed |-> failed,
     linksCreated |-> linksCreated]

\* The links built for every row whose entity is in the registry, whether or
\* not the document was uploaded.
NewLinks_AnyDocument(links, docMap, maps) ==
    LET ok == SelectSeq(links, LAMBDA l :
                  Truthy(findInAnyIdMap(maps, l.LinkedEntityId)))
    IN [k \in 1..Len(ok) |->
          [ContentDocumentId |-> IF MapHas(docMap, ok[k].ContentDocumentId)
                                 THEN MapGet(docMap, ok[k].ContentDocumentId)
                                 ELSE UNDEFINED,
           LinkedEntityId |-> findInAnyIdMap(maps, ok[k].LinkedEntityId)]]

\* The ContentDocumentLinks seedFiles builds for the target: those whose
\* document was uploaded and whose entity is in some id map.
NewLinks(links, docMap, maps) ==
    LET ok == SelectSeq(links, LAMBDA l :
                  /\ MapHas(docMap, l.ContentDocumentId)
                  /\ Truthy(findInAnyIdMap(maps, l.LinkedEntityId)))
    IN [k \in 1..Len(ok) |->
          [ContentDocumentId |-> MapGet(docMap, ok[k].ContentDocumentId),
           LinkedEntityId |-> findInAnyIdMap(maps, ok[k].LinkedEntityId)]]

\* Stage 6 of runSeeder: the probe, then seedFiles up to its first upload.
FilesStart ==
    /\ pc = "files"
    /\ LET allSourceIds == getAllSourceIds(idMaps)
           links == QueryLinks(allSourceIds)
           contentDocIds == Distinct([k \in 1..Len(links) |-> links[k].ContentDocumentId])
           versions == QueryVersions(contentDocIds)
           linkQueries == ChunkQueries("file", "ContentDocumentLink", "LinkedEntityId",
                                       allSourceIds)
           versionQueries == ChunkQueries("file", "ContentVersion", "ContentDocumentId",
                                          contentDocIds)
       IN IF shouldAbort
          THEN /\ log' = Append(log, Probe("file"))
               /\ pc' = "done"
               /\ outcome' = "partial"
               /\ UNCHANGED <<results, files>>
          ELSE IF Len(allSourceIds) = 0
          THEN /\ log' = Append(log, Probe("file"))
               /\ results' = [results EXCEPT !.files = FileResult(0, 0, 0, 0)]
               /\ pc' = "done"
               /\ outcome' = "complete"
               /\ UNCHANGED files
          ELSE IF Len(links) = 0
          THEN /\ log' = Append(log, Probe("file")) \o linkQueries
               /\ results' = [results EXCEPT !.files = FileResult(0, 0, 0, 0)]
               /\ pc' = "done"
               /\ outcome' = "complete"
               /\ UNCHANGED files
          ELSE /\ log' = Append(log, Probe("file")) \o linkQueries \o versionQueries
               /\ IF config.dryRun
                  THEN /\ results' = [results EXCEPT !.files =
                                        FileResult(Len(versions), Len(versions), 0,
                                                   Len(links))]
                       /\ pc' = "done"
                       /\ outcome' = "complete"
                       /\ UNCHANGED files
                  ELSE IF Len(versions) = 0
                  THEN /\ results' = [results EXCEPT !.files = FileResult(0, 0, 0, 0)]
                       /\ pc' = "done"
                       /\ outcome' = "complete"
                       /\ UNCHANGED files
                  ELSE /\ files' = [NoFiles EXCEPT !.links = links,
                                                   !.versions = versions]
                       /\ pc' = "upload"
                       /\ UNCHANGED <<results, outcome>>
    /\ UNCHANGED <<flags, runNo, config, source, target, aborted, idMaps, errors,
                   job, loop, core, prev, received>>

\* One pass of the upload loop: download from the source, create the
\* ContentVersion in the target, ask the target for its ContentDocumentId.
\* After the last pass, the links to create are built.
UploadFile ==
    /\ pc = "upload"
    \* the transfer succeeds; the create is refused; the download throws; or
    \* the create succeeds and the query for the new document id throws
    /\ \E res \in {"ok", "rejected", "throws", "lost"} :
        LET cv == files.versions[files.vi + 1]
            newId == Tid("ContentVersion", target.next)
            download == Event("download", "file", "ContentVersion", "", <<cv.Id>>, 0)
            create == Event("create", "file", "ContentVersion", "", <<cv.Id>>, 0)
            back == Event("tquery", "file", "ContentVersion", "Id", <<newId>>, 0)
            docMap == IF res = "ok"
                      THEN MapSet(files.docMap, cv.ContentDocumentId,
                                  Tid("ContentDocument", target.next))
                      ELSE files.docMap
            last == files.vi + 1 >= Len(files.versions)
            newLinks == NewLinks(files.links, docMap, idMaps)
            f2 == [files EXCEPT !.vi = @ + 1,
                                !.filesUploaded = IF res \in {"ok", "lost"}
                                                  THEN @ + 1 ELSE @,
                                !.filesFailed = IF res = "ok" THEN @ ELSE @ + 1,
                                !.docMap = docMap,
                                !.newLinks = IF last THEN newLinks ELSE @]
        IN /\ log' = log \o (CASE res = "ok" -> <<download, create, back>>
                               [] res = "rejected" -> <<download, create>>
                               [] res = "lost" ->
                                    <<download, create, Thrown("file", "ContentVersion")>>
                               [] OTHER -> <<download, Thrown("file", "ContentVersion")>>)
           /\ target' = IF res \in {"ok", "lost"}
                        THEN [target EXCEPT
                                !.recs = @ \cup {[Id |-> newId, obj |-> "ContentVersion",
                                                  ext |-> UNDEFINED]},
                                !.next = @ + 1]
                        ELSE target
           /\ errors' = IF res = "ok" THEN errors
                        ELSE Append(errors, SeedError("ContentVersion", cv.Id, "upload"))
           /\ files' = f2
           /\ IF ~last
              THEN /\ pc' = "upload"
                   /\ UNCHANGED <<results, outcome>>
              ELSE IF Len(newLinks) > 0
              THEN /\ pc' = "links"
                   /\ UNCHANGED <<results, outcome>>
              ELSE /\ results' = [results EXCEPT !.files =
                                    FileResult(Len(files.versions), f2.filesUploaded,
                                               f2.filesFailed, 0)]
                   /\ pc' = "done"
                   /\ outcome' = "complete"
    /\ UNCHANGED <<flags, runNo, config, source, aborted, idMaps, job, loop, core, prev, received>>

\* One pass of the link loop: one bulk create of ContentDocumentLinks.
LinkBatch ==
    /\ pc = "links"
    /\ \E ok \in BOOLEAN :
        LET batch == Slice(files.newLinks, files.li, BATCH_SIZE)
            created == IF ok THEN Len(batch) ELSE 0
            newRecs == {[Id |-> Tid("ContentDocumentLink", target.next + k - 1),
                         obj |-> "ContentDocumentLink", ext |-> UNDEFINED] :
                           k \in 1..created}
            li2 == files.li + BATCH_SIZE
            f2 == [files EXCEPT !.li = li2, !.linksCreated = @ + created]
        IN /\ log' = Append(log, Event("create", "file", "ContentDocumentLink", "",
                                       batch, job.no + 1))
           /\ target' = [target EXCEPT !.recs = @ \cup newRecs, !.next = @ + created]
           /\ errors' = errors \o
                          (IF ok THEN <<>>
                           ELSE [k \in 1..Len(batch) |->
                                   SeedError("ContentDocumentLink", UNDEFINED, "link")])
           /\ files' = f2
           /\ IF li2 < Len(files.newLinks)
              THEN /\ pc' = "links"
                   /\ UNCHANGED <<results, outcome>>
              ELSE /\ results' = [results EXCEPT !.files =
                                    FileResult(Len(files.versions), f2.filesUploaded,
                                               f2.filesFailed, f2.linksCreated)]
                   /\ pc' = "done"
                   /\ outcome' = "complete"
    /\ UNCHANGED <<flags, runNo, config, source, aborted, idMaps, job, loop, core, prev, received>>

(***************************************************************************)
(* Connection failures.  runSeeder and its stage functions have two try    *)
(* blocks: around the dependency pull (seedDependencyObjects) and around   *)
(* one file's transfer (seedFiles).  A call that rejects anywhere else     *)
(* rejects runSeeder itself.                                               *)
(***************************************************************************)
\* The stages whose first action starts with the driver's probe.
StageHeads == {"children", "grandchildren", "tasks", "events", "files"}

\* Where the driver stands when its next await is a connection call outside
\* both try blocks.
Uncaught ==
    \/ pc \in {"stage1", "core_update", "links"}
    \/ /\ pc = "deps"
       /\ Len(core.deps) = 0
       /\ Len(ExtraParentIds(core.sourceRecords, core.selfRefFields,
                             core.selectFields)) > 0
    \/ pc = "batch" /\ job.ret # "deps"
    \/ pc \in {"children", "tasks", "events"} /\ ~shouldAbort
    \/ /\ pc = "grandchildren"
       /\ ~shouldAbort
       /\ HasIdMap(idMaps, Grandchildren[loop.gi].parentChildObject)
       /\ Len(IdMapOf(idMaps, Grandchildren[loop.gi].parentChildObject)) > 0
    \/ pc = "files" /\ ~shouldAbort /\ Len(getAllSourceIds(idMaps)) > 0

ThrowTier ==
    CASE pc \in {"stage1", "deps", "core_update"} -> "core"
      [] pc = "batch" -> job.tier
      [] pc = "children" -> "child"
      [] pc = "grandchildren" -> "grandchild"
      [] pc = "tasks" -> "task"
      [] pc = "events" -> "event"
      [] OTHER -> "file"

\* The driver going on with the stage as if the call had not failed.
AfterThrow_Swallowed == pc

\* No catch between the failing await and runSeeder's caller.
AfterThrow == "thrown"

\* A connection call outside the try blocks rejects: the exception leaves
\* runSeeder, whose locals (results, errors, the registry) go with it.
Throw ==
    /\ target.flaky
    /\ Uncaught
    /\ log' = log \o (IF pc \in StageHeads THEN <<Probe(ThrowTier)>> ELSE <<>>)
                  \o <<Thrown(ThrowTier, "")>>
    /\ pc' = AfterThrow
    /\ outcome' = "exception"
    /\ UNCHANGED <<flags, runNo, config, source, target, aborted, idMaps, results,
                   errors, job, loop, core, files, prev, received>>

\* runSeeder returned: the caller binds `results` and displays it.
Return ==
    /\ pc = "done"
    /\ ~received.bound
    /\ received' = [results |-> results, errors |-> errors, bound |-> TRUE]
    /\ UNCHANGED <<flags, runNo, config, source, target, pc, aborted, idMaps,
                   results, errors, outcome, job, loop, core, files, log, prev>>

(***************************************************************************)
(* The SIGINT handler the command installs around runSeeder.               *)
(***************************************************************************)
Running == pc \notin {"idle", "done", "exited", "thrown"}

\* The first SIGINT sets the flag; a second one is process.exit(1).
\* The handler returning on a second signal as it does on the first.
ForceQuit_Ignored == pc

\* process.exit(1): the process is gone, whatever the driver was awaiting.
ForceQuit == "exited"

Sigint ==
    /\ Running
    /\ log' = Append(log, Event("sigint", "", "", "", <<>>, 0))
    /\ IF aborted
       THEN /\ pc' = ForceQuit
            /\ UNCHANGED aborted
       ELSE /\ aborted' = TRUE
            /\ UNCHANGED pc
    /\ UNCHANGED <<flags, runNo, config, source, target, idMaps, results, errors,
                   outcome, job, loop, core, files, prev, received>>

(***************************************************************************)
(* The command invoked again on the same two orgs.                         *)
(***************************************************************************)
Queries(l) == SelectSeq(l, LAMBDA e : e.kind = "query")

NoPrev ==
    [valid |-> FALSE, dryRun |-> FALSE, config |-> <<>>, queries |-> <<>>,
     errors |-> <<>>, results |-> InitialResults, idMaps |-> <<>>, trecs |-> {}]

\* A finished invocation is followed by another, with or without --dry-run;
\* runSeeder starts from an empty registry, the target keeps what it was given.
Again(rejects) ==
    /\ prev' = [valid |-> TRUE, dryRun |-> config.dryRun, config |-> config,
                queries |-> Queries(log), errors |-> errors, results |-> results,
                idMaps |-> idMaps, trecs |-> target.recs]
    /\ runNo' = runNo + 1
    /\ \E d \in BOOLEAN : flags' = [flags EXCEPT !.dry = d]
    /\ pc' = "idle"
    /\ aborted' = FALSE
    /\ idMaps' = <<>>
    /\ results' = InitialResults
    /\ errors' = <<>>
    /\ outcome' = ""
    /\ job' = NoJob
    /\ loop' = NoLoop
    /\ core' = NoCore
    /\ files' = NoFiles
    /\ log' = <<>>
    /\ received' = NotReceived
    /\ target' = [target EXCEPT !.rejects = rejects]
    /\ UNCHANGED <<config, source>>

\* The command is run again on the same orgs.
Rerun ==
    /\ pc = "done" /\ received.bound
    /\ runNo < MaxRuns
    /\ Again(target.rejects)

\* What the target may have come to refuse between two runs (a validation
\* rule added, a record locked): the write of Account 2.
RefusedLater == {{Acc(2)}}

\* The command is run again, the target now refusing a record it took before.
RerunRefusing ==
    /\ pc = "done" /\ received.bound
    /\ runNo < MaxRuns
    /\ \E rejects \in RefusedLater : Again(rejects)

(***************************************************************************)
(* The specifications.                                                     *)
(***************************************************************************)
Cmd(o, dry, c, g, all, u) ==
    [s |-> TRUE, t |-> TRUE, o |-> o, dry |-> dry, c |-> c, g |-> g,
     tasks |-> all, events |-> all, files |-> all, u |-> u, n |-> <<"1", "0">>]

\* Values of --count besides the default "10".
CountStrings ==
    {<<"A", "l", "l">>, <<"a", "l", "l">>, <<"2">>, <<"2", "x">>, <<"0">>,
     <<"a", "b", "c">>}

\* The command lines under study.
CommandLines ==
    {Cmd(TRUE, d, <<>>, <<>>, FALSE, "") : d \in BOOLEAN}
    \cup {Cmd(TRUE, d, <<"Contact">>, <<"Case">>, TRUE, "") : d \in BOOLEAN}
    \cup {Cmd(TRUE, d, <<"Contact", "Contact">>, <<>>, FALSE, "") : d \in BOOLEAN}
    \cup {Cmd(TRUE, d, <<"Task">>, <<>>, TRUE, "") : d \in BOOLEAN}
    \cup {Cmd(TRUE, d, <<"Contact">>, <<>>, FALSE, "External_Id__c") : d \in BOOLEAN}
    \cup {Cmd(TRUE, d, <<"Case", "Contact">>, <<>>, FALSE, "") : d \in BOOLEAN}
    \cup {Cmd(TRUE, d, <<"Contact", "Case">>, <<"Case">>, FALSE, "") : d \in BOOLEAN}
    \cup {Cmd(TRUE, FALSE, <<"Case", "Contact">>, <<"CaseComment", "Case">>,
             FALSE, "")}
    \cup {Cmd(FALSE, d, <<>>, <<>>, FALSE, "") : d \in BOOLEAN}
    \cup {[Cmd(TRUE, FALSE, <<>>, <<>>, FALSE, "") EXCEPT !.n = str] :
             str \in CountStrings}

\* What the core query returns, and the shape of the source's references.
Sources ==
    {[coreRecs |-> <<>>, shape |-> "flat"],
     [coreRecs |-> [k \in 1..NCore |-> Acc(k)], shape |-> "flat"],
     [coreRecs |-> [k \in 1..NCore |-> Acc(k)], shape |-> "tree"]}

\* The source records the target refuses.
RejectSets ==
    {{}, {Acc(2)}, {Acc(n) : n \in 0..NCore}, {Sid("Contact", 1)}, {Sid("Zone", 1)},
     SourceRecords("Case")}

\* How the target org stands to the dependency object Zone.
ZoneModes == {"ok", "notCreateable", "noFields", "throws"}

\* The combinations under study: the target's Zone matters only to a source
\* whose accounts refer to a Zone, and is varied with nothing else refused.
Combination(src, rej, zone) ==
    /\ (zone # "ok" \/ Sid("Zone", 1) \in rej) => src.shape = "tree"
    /\ zone # "ok" => rej = {}

Init ==
    /\ flags \in CommandLines
    /\ source \in Sources
    /\ target \in {[recs |-> {}, next |-> 1, rejects |-> rej, zone |-> zone,
                      flaky |-> fl] :
                       rej \in RejectSets, zone \in ZoneModes, fl \in BOOLEAN}
    /\ Combination(source, target.rejects, target.zone)
    \* refusing every Case matters only where a grandchild hangs below Case
    /\ target.rejects = SourceRecords("Case") => "CaseComment" \in Range(flags.g)
    /\ target.flaky => (target.rejects = {} /\ target.zone = "ok")
    /\ runNo = 1
    /\ config = InteractiveConfig([children |-> <<>>, all |-> FALSE])
    /\ pc = "idle"
    /\ aborted = FALSE
    /\ idMaps = <<>>
    /\ results = InitialResults
    /\ errors = <<>>
    /\ outcome = ""
    /\ job = NoJob
    /\ loop = NoLoop
    /\ core = NoCore
    /\ files = NoFiles
    /\ log = <<>>
    /\ prev = NoPrev
    /\ received = NotReceived

Run ==
    \/ RunFlagMode
    \/ StartSeeding
    \/ SeedCoreStart
    \/ PullDependency
    \/ CorePrepare
    \/ SubmitBatch
    \/ CoreSelfRef
    \/ CoreUpdateBatch
    \/ AfterCore
    \/ ChildStart
    \/ ChildDone
    \/ GrandchildStart
    \/ GrandchildDone
    \/ ActivityStart("Task")
    \/ ActivityStart("Event")
    \/ ActivityDone
    \/ FilesStart
    \/ UploadFile
    \/ LinkBatch
    \/ Throw
    \/ Return

Next == Run \/ Sigint

Spec == Init /\ [][Next]_vars

NextRerun == Run \/ Rerun

\* Repeated invocations are studied on a target that refuses nothing.
InitRerun == Init /\ target.rejects = {} /\ target.zone = "ok"

SpecRerun == InitRerun /\ [][NextRerun]_vars

NextRefuse == Run \/ RerunRefusing

SpecRefuse == InitRerun /\ [][NextRefuse]_vars

(***************************************************************************)
(* Properties.  Helpers over the log first.                                *)
(***************************************************************************)
IsWrite(e) == e.kind \in {"create", "update", "upsert"}

\* A bulk request: every write but the single-record ContentVersion create.
BulkWrite(e) == IsWrite(e) /\ e.obj # "ContentVersion"

TierRank(t) ==
    CASE t = "core" -> 1
      [] t = "child" -> 2
      [] t = "grandchild" -> 3
      [] t = "task" -> 4
      [] t = "event" -> 5
      [] t = "file" -> 6
      [] OTHER -> 0

Tiers == {"core", "child", "grandchild", "task", "event", "file"}

\* The step evaluates shouldAbort.
ProbeStep == Len(log') > Len(log) /\ log'[Len(log) + 1].kind = "probe"

\* No bulk write is part-way: the writer's loop, the self-reference update
\* loop and the link loop have each run to their end (or have not begun).
WriteFinished ==
    /\ job.no > 0 => (config.dryRun \/ job.i >= Len(job.recs))
    /\ core.ui >= Len(core.updates)
    /\ files.li >= Len(files.newLinks)

\* Every entry of the registry is in the registry after the step, unchanged.
EntriesKept ==
    \A i \in 1..Len(idMaps) : \A j \in 1..Len(idMaps[i].map) :
        /\ HasIdMap(idMaps', idMaps[i].name)
        /\ MapHas(IdMapOf(idMaps', idMaps[i].name), idMaps[i].map[j].k)
        /\ MapGet(IdMapOf(idMaps', idMaps[i].name), idMaps[i].map[j].k)
             = idMaps[i].map[j].v

\* C1: over a run, an entry (object, sourceId) -> targetId of the registry is
\* never removed and never changed to another targetId, and an object's map
\* is never replaced, by any later step.
C1_RegistryAppendOnly == [][EntriesKept]_vars

\* C2: the calls of the run are in tier order (root, child, grandchild, Task,
\* Event, file), and when a later tier makes its first call every bulk write
\* of the tiers before it has run to its end.
C2_TierOrder ==
    /\ \A i, j \in 1..Len(log) :
          (i < j /\ log[i].tier \in Tiers /\ log[j].tier \in Tiers)
              => TierRank(log[i].tier) <= TierRank(log[j].tier)
    /\ (\E i \in 1..Len(log) : TierRank(log[i].tier) > TierRank(job.tier))
          => (job.no > 0 => (config.dryRun \/ job.i >= Len(job.recs)))
    /\ (\E i \in 1..Len(log) : TierRank(log[i].tier) > TierRank("core"))
          => core.ui >= Len(core.updates)

\* C2's case: a complete run that wrote in all six tiers.
C2_Witness ==
    /\ pc = "done"
    /\ outcome = "complete"
    /\ \A t \in Tiers : \E i \in 1..Len(log) : IsWrite(log[i]) /\ log[i].tier = t

\* What the results hold of the stages at and after the stage whose probe
\* returned true: nothing.
NotStarted(res, tier) ==
    /\ res.files = NullFiles
    /\ tier \in {"core", "child", "grandchild", "task", "event"} => res.events = NullResult
    /\ tier \in {"core", "child", "grandchild", "task"} => res.tasks = NullResult
    /\ tier \in {"core", "child"} => res.grandchildren = <<>>
    /\ tier = "core" => res.children = <<>>
    /\ tier = "child" => Len(res.children) < Len(config.children)
    /\ tier = "grandchild" => Len(res.grandchildren) < Len(Grandchildren)

\* C3: a probe of shouldAbort that finds the flag up ends the run at once:
\* runSeeder returns normally, no call of a further stage is made, nothing
\* is written, and the results hold only the stages that completed.
C3_AbortStopsRun ==
    [][(ProbeStep /\ aborted) =>
          /\ pc' = "done"
          /\ outcome' = "partial"
          /\ log' = Append(log, log'[Len(log) + 1])
          /\ results' = results
          /\ idMaps' = idMaps
          /\ target' = target
          /\ errors' = errors
          /\ NotStarted(results', log'[Len(log) + 1].tier)]_vars

\* C3's case: the flag went up during Stage 2; the children are in the
\* results, the configured grandchildren and the activities are not.
C3_Witness ==
    /\ pc = "done"
    /\ outcome = "partial"
    /\ Len(config.children) > 0
    /\ Len(results.children) = Len(config.children)
    /\ results.children[1].inserted > 0
    /\ Len(Grandchildren) > 0
    /\ results.grandchildren = <<>>
    /\ config.includeTasks
    /\ results.tasks = NullResult

HasSigint == \E i \in 1..Len(log) : log[i].kind = "sigint"

FirstSigint ==
    CHOOSE i \in 1..Len(log) :
        log[i].kind = "sigint" /\ \A j \in 1..(i - 1) : log[j].kind # "sigint"

\* C5: after the first Ctrl+C of a run at most one more bulk write batch is
\* submitted (the one in flight); then the run stops.
C5_StopsAfterCurrentBatch ==
    HasSigint =>
        Cardinality({k \in 1..Len(log) : k > FirstSigint /\ BulkWrite(log[k])}) <= 1

\* The results of a run that ended at the empty-core test.
EarlyResults(res) ==
    /\ res.children = <<>>
    /\ res.grandchildren = <<>>
    /\ res.tasks = NullResult
    /\ res.events = NullResult
    /\ res.files = NullFiles

\* C6: outside dry-run, a Stage 1 that ends with inserted = 0 and updated = 0
\* makes runSeeder return at once, no later stage run; the early return is
\* taken only there and never in dry-run; a run that ends elsewhere without
\* an abort has run every stage that is switched on.
C6_EarlyReturn ==
    [][/\ (/\ pc = "check1" /\ ProbeStep /\ ~aborted /\ ~config.dryRun
           /\ results.coreObject.inserted = 0 /\ results.coreObject.updated = 0)
          => /\ pc' = "done"
             /\ outcome' = "early"
             /\ log' = Append(log, Probe("core"))
             /\ EarlyResults(results')
       /\ (outcome' = "early" /\ outcome # "early")
          => /\ pc = "check1"
             /\ ~config.dryRun
             /\ results.coreObject.inserted = 0
             /\ results.coreObject.updated = 0
       /\ (pc' = "done" /\ pc # "done" /\ outcome' \notin {"partial", "early"})
          => /\ outcome' = "complete"
             /\ Len(results'.children) = Len(config.children)
             /\ config.includeTasks => results'.tasks # NullResult
             /\ config.includeEvents => results'.events # NullResult
             /\ config.includeFiles => results'.files # NullFiles]_vars

\* C6's case: children were asked for, the target refused every core record,
\* and the run ended early with nothing but the core result.
C6_Witness ==
    /\ pc = "done"
    /\ outcome = "early"
    /\ Len(config.children) > 0
    /\ results.coreObject.queried > 0
    /\ results.coreObject.failed > 0
    /\ EarlyResults(results)

\* C7: with dryRun = true no create, update or upsert is sent to the target,
\* no file is downloaded, the target holds no record and no id map has an
\* entry, at any point of the run.
C7_DryRunWritesNothing ==
    config.dryRun =>
        /\ \A i \in 1..Len(log) : ~IsWrite(log[i]) /\ log[i].kind # "download"
        /\ getAllSourceIds(idMaps) = <<>>
        /\ target.recs = {}

\* C7's case: a complete dry run over data with a dependency and
\* self-references, with children and the file stage switched on.
C7_Witness ==
    /\ config.dryRun
    /\ pc = "done"
    /\ outcome = "complete"
    /\ source.shape = "tree"
    /\ HasIdMap(idMaps, "Region")
    /\ results.coreObject.inserted > 0
    /\ Len(config.children) > 0
    /\ config.includeFiles

\* C8: a command line with --dry-run creates no record in the target,
\* whether flag mode or the interactive loop handles it.
C8_DryRunFlagCreatesNothing == flags.dry => target.recs = {}

\* The per-object results a finished run reports.
ObjectResults ==
    {results.coreObject}
    \cup Range(results.children)
    \cup Range(results.grandchildren)
    \cup ({results.tasks, results.events} \ {NullResult})

\* C9: in a dry run every per-object result has inserted = queried,
\* failed = 0 and updated = 0.
C9_DryRunCounts ==
    (config.dryRun /\ pc = "done") =>
        \A r \in ObjectResults : r.inserted = r.queried /\ r.failed = 0 /\ r.updated = 0

\* The two invocations have the same plan and differ in dryRun; the real
\* one of the two had no failure.
DryAndRealRun ==
    /\ prev.valid
    /\ pc = "done"
    /\ prev.dryRun # config.dryRun
    /\ prev.config = [config EXCEPT !.dryRun = prev.dryRun]
    /\ IF config.dryRun THEN prev.errors = <<>> ELSE errors = <<>>

\* C10: for one plan and one source, a dry run sends the source the same
\* queries as a real run whose writes all succeed.
C10_DryRunSameQueries == DryAndRealRun => Queries(log) = prev.queries

(***************************************************************************)
(* Properties of the preparers.                                            *)
(***************************************************************************)
\* The step enters seedRelatedObject and sends its query.
RelatedStep ==
    /\ pc \in {"children", "grandchildren"}
    /\ \E i \in (Len(log) + 1)..Len(log') : log'[i].kind = "query"

\* The object seedRelatedObject is called for in that step, and its parents.
RelatedCall ==
    IF pc = "children"
    THEN [tier |-> "child", obj |-> config.children[loop.ci].objectApiName,
          field |-> config.children[loop.ci].lookupField,
          parents |-> loop.coreSourceIds]
    ELSE [tier |-> "grandchild", obj |-> Grandchildren[loop.gi].objectApiName,
          field |-> Grandchildren[loop.gi].lookupField,
          parents |-> MapKeys(IdMapOf(idMaps, Grandchildren[loop.gi].parentChildObject))]

\* The step calls a writer.
WriterCalled == job'.no = job.no + 1

\* The errors the step appends.
NewErrors == SubSeq(errors', Len(errors) + 1, Len(errors'))

\* The insertable reference fields of obj that point into the registry's objects.
InScopeFields(obj, maps) ==
    {f \in findLookupFieldsToRemap(getObjectFields("source", obj), ObjectsInScope(maps)) :
        f.name \in InsertableFields(obj)}

\* Record r has, in one of the fields, a required reference that is not null
\* and has no entry in the maps.
Unmapped(r, fields, maps) ==
    \E f \in fields :
        /\ ~f.nillable
        /\ SrcVal(source.shape, r, f.name) # NULL
        /\ ~Truthy(findInAnyIdMap(maps, SrcVal(source.shape, r, f.name)))

\* What C11 asks of a child or grandchild object: of the records its query
\* returned, those with an unmapped required reference get one "remap" error
\* each and are counted as skipped, and exactly the others go to the writer.
RelatedSkips ==
    LET c == RelatedCall
        recs == Range(queryAllChunked(c.obj, c.field, c.parents))
        bad == {r \in recs : Unmapped(r, InScopeFields(c.obj, idMaps), idMaps)}
        reported == results'[IF c.tier = "child" THEN "children" ELSE "grandchildren"]
    IN /\ (IF WriterCalled THEN Range(job'.sourceIds) ELSE {}) = recs \ bad
       /\ WriterCalled => /\ job'.obj = c.obj
                          /\ Len(job'.recs) = Cardinality(recs \ bad)
                          /\ job'.skipped = Cardinality(bad)
       /\ ~WriterCalled => reported[Len(reported)].skipped = Cardinality(bad)
       /\ \A r \in bad :
             Cardinality({k \in 1..Len(NewErrors) :
                             NewErrors[k] = SeedError(c.obj, r, "remap")}) = 1
       /\ Len(NewErrors) = Cardinality(bad)

\* The step is seedCoreObject's preparation of the core records, in a real run.
CorePrepareStep == pc = "deps" /\ Len(core.deps) = 0 /\ WriterCalled /\ ~config.dryRun

\* The core object's insertable data-dependency fields.
DependencyFieldsOf(obj) ==
    {f \in getObjectFields("source", obj) :
        f.name \in DOMAIN core.dependencyFields \cap InsertableFields(obj)}

\* The same asked of the root tier.
CoreSkips ==
    LET recs == Range(core'.allRecordsToInsert)
        bad == {r \in recs : Unmapped(r, DependencyFieldsOf(CoreName), idMaps)}
    IN /\ Range(job'.sourceIds) = recs \ bad
       /\ \A r \in bad : \E k \in 1..Len(NewErrors) :
                              NewErrors[k] = SeedError(CoreName, r, "remap")

ClassifiedDependencyFields ==
    DOMAIN categorizeReferenceFields(
               {f \in getObjectFields("source", CoreName) :
                   f.name \in InsertableFields(CoreName) \/ selfRefFieldCheck(f, CoreName)},
               CoreName).dependencyFields

\* The bulk creates and upserts of the core object's own records.
CoreWrites ==
    {i \in 1..Len(log) : /\ log[i].kind \in {"create", "upsert"}
                          /\ log[i].tier = "core"
                          /\ log[i].obj = CoreName}

\* C12: once the pull of a data-dependency object has failed (its describe
\* throws, it is not createable in the target, or it has no insertable field),
\* no core record is written with a source-org id in a field that refers to
\* that object.
C12_FailedPullStripsFields ==
    \A i \in CoreWrites : \A k \in 1..Len(log[i].recs) :
        \A f \in ClassifiedDependencyFields \ DOMAIN core.dependencyFields :
            FieldOf(log[i].recs[k], f).org # "src"

\* The value written in field f of the k-th record handed to the writer is
\* null, absent, or the target id the registry holds, under an object f
\* refers to, for the source record's value.
Remapped(k, f) ==
    LET v == FieldOf(job'.recs[k], f.name)
        sv == SrcVal(source.shape, job'.sourceIds[k], f.name)
    IN Truthy(v) =>
          /\ sv.o \in f.referenceTo
          /\ HasIdMap(idMaps', sv.o)
          /\ MapHas(IdMapOf(idMaps', sv.o), sv)
          /\ v = MapGet(IdMapOf(idMaps', sv.o), sv)
          /\ v.org = "tgt"

PlanObjects ==
    {CoreName}
    \cup {config.children[k].objectApiName : k \in 1..Len(config.children)}
    \cup {Grandchildren[k].objectApiName : k \in 1..Len(Grandchildren)}

\* The insertable reference fields of obj that point at an object of the plan.
PlanReferenceFields(obj) ==
    {f \in ReferenceFields(getObjectFields("source", obj)) :
        f.name \in InsertableFields(obj) /\ f.referenceTo \cap PlanObjects # {}}

\* C14: in every child or grandchild record handed to the writer, a reference
\* field that points at an object of the plan and is not null in the source
\* is present in the record (remapped, or null when it has no mapping); it is
\* never left out as out-of-scope, whatever the order of the children.
C14_PlanReferencesKept ==
    [][(RelatedStep /\ WriterCalled) =>
          \A k \in 1..Len(job'.recs) : \A f \in PlanReferenceFields(RelatedCall.obj) :
              Truthy(SrcVal(source.shape, job'.sourceIds[k], f.name))
                  => FieldOf(job'.recs[k], f.name) # UNDEFINED]_vars

\* The bulk updates of the self-reference pass, and the records they carry.
CoreUpdates == {i \in 1..Len(log) : log[i].kind = "update" /\ log[i].tier = "core"}

\* The self-reference fields of core record r whose source value has an
\* entry in the core object's map.
Resolvable(r) ==
    {f \in core.selfRefFields :
        /\ Truthy(SrcVal(source.shape, r, f))
        /\ MapHas(IdMapOf(idMaps, CoreName), SrcVal(source.shape, r, f))}

\* The update {Id: t, field: t'} owed to core record r.
UpdateOwed(r) ==
    [f \in Resolvable(r) \cup {"Id"} |->
        IF f = "Id" THEN MapGet(IdMapOf(idMaps, CoreName), r)
        ELSE MapGet(IdMapOf(idMaps, CoreName), SrcVal(source.shape, r, f))]

\* C15: when Stage 1 of a real run is over, the updates submitted are those
\* owed: one {Id: t, field: t'} for every core record with a registry entry
\* t and a self-reference whose source value has a registry entry t', none
\* for any other record, each once, in requests of at most BATCH_SIZE.
C15_SelfRefUpdates ==
    (pc = "check1" /\ ~config.dryRun /\ HasIdMap(idMaps, CoreName)) =>
        LET owed == {UpdateOwed(r) :
                        r \in {x \in Range(core.allRecordsToInsert) :
                                  /\ MapHas(IdMapOf(idMaps, CoreName), x)
                                  /\ Resolvable(x) # {}}}
            sent == UNION {Range(log[i].recs) : i \in CoreUpdates}
        IN /\ sent = owed
           /\ \A i \in CoreUpdates : Len(log[i].recs) \in 1..BATCH_SIZE
           /\ \A i, j \in CoreUpdates :
                 i # j => Range(log[i].recs) \cap Range(log[j].recs) = {}

\* C15's case: the accounts form a chain; every account but the top of the
\* chain is owed an update, and the updates take more than one request.
C15_Witness ==
    /\ pc = "check1"
    /\ ~config.dryRun
    /\ Cardinality(CoreUpdates) > 1
    /\ \E r \in Range(core.allRecordsToInsert) :
          MapHas(IdMapOf(idMaps, CoreName), r) /\ Resolvable(r) = {}

(***************************************************************************)
(* Properties of the activity stages.                                      *)
(***************************************************************************)
\* The step is seedActivities preparing its records and calling the writer.
ActivityStep == pc \in {"tasks", "events"} /\ WriterCalled

\* Every target id the registry holds.
RegistryTargetIds(maps) ==
    UNION {{maps[i].map[j].v : j \in 1..Len(maps[i].map)} : i \in 1..Len(maps)}

\* The activities the stage's two queries return for the registry's source ids.
ActivitiesFound(activityType) ==
    {r \in SourceRecords(activityType) :
        \E f \in {"WhatId", "WhoId"} :
            SrcVal(source.shape, r, f) \in Range(getAllSourceIds(idMaps))}

\* C16: every Task or Event handed to the writer has WhatId and WhoId each
\* null, absent, or a target id of the registry; an id that cannot be
\* remapped is written as null, and every activity found is handed over,
\* none skipped.
C16_ActivityIdsRemapped ==
    [][ActivityStep =>
          /\ Range(job'.sourceIds) = ActivitiesFound(job'.obj)
          /\ Len(job'.recs) = Cardinality(ActivitiesFound(job'.obj))
          /\ job'.skipped = 0
          /\ \A k \in 1..Len(job'.recs) : \A f \in {"WhatId", "WhoId"} :
                LET v == FieldOf(job'.recs[k], f)
                    sv == SrcVal(source.shape, job'.sourceIds[k], f)
                IN /\ Truthy(v) => v \in RegistryTargetIds(idMaps')
                   /\ (Truthy(sv) /\ ~Truthy(findInAnyIdMap(idMaps', sv))) => v = NULL]_vars

\* C16's case: a task whose account was seeded and whose contact was not
\* went out with the account's target id and a null WhoId.
C16_Witness ==
    /\ pc = "done"
    /\ results.tasks # NullResult
    /\ results.tasks.skipped = 0
    /\ \E i \in 1..Len(log) :
          /\ log[i].kind = "create" /\ log[i].tier = "task"
          /\ \E k \in 1..Len(log[i].recs) :
                /\ FieldOf(log[i].recs[k], "WhatId").org = "tgt"
                /\ FieldOf(log[i].recs[k], "WhoId") = NULL

\* C17: in a prepared Task or Event record no field other than WhatId and
\* WhoId holds a source-org id.
C17_ActivityNoSourceIds ==
    job.tier \in {"task", "event"} =>
        \A k \in 1..Len(job.recs) : \A f \in DOMAIN job.recs[k] \ {"WhatId", "WhoId"} :
            job.recs[k][f].org # "src"

\* The fields of obj that may be written: createable in both schemas, not a
\* system field of the tier, not an address or a location.
Writable(obj, systemFields) ==
    {f.name : f \in {g \in getObjectFields("source", obj) :
                        /\ g.createable
                        /\ g.name \notin systemFields
                        /\ g.type \notin {"address", "location"}}}
    \cap {f.name : f \in {g \in getObjectFields("target", obj) : g.createable}}

\* C18: every record prepared for insert or upsert, in any tier, has only
\* keys that are createable in the source and in the target schema, none of
\* SYSTEM_READONLY_FIELDS (activities: ACTIVITY_SYSTEM_FIELDS) and none of an
\* address or location field; WhatId and WhoId are no exception.
C18_OnlyWritableKeys ==
    \A k \in 1..Len(job.recs) :
        DOMAIN job.recs[k] \subseteq
            Writable(job.obj, IF job.tier \in {"task", "event"}
                              THEN ACTIVITY_SYSTEM_FIELDS ELSE SYSTEM_READONLY_FIELDS)

(***************************************************************************)
(* Properties of the requests.                                             *)
(***************************************************************************)
\* C19: every create, update or upsert request carries at most BATCH_SIZE
\* records, and every IN clause of a query holds at most QUERY_CHUNK_SIZE
\* values, however many records and ids there are.
C19_RequestSizes ==
    \A i \in 1..Len(log) :
        /\ IsWrite(log[i]) => Len(log[i].recs) <= BATCH_SIZE
        /\ log[i].kind \in {"query", "tquery"} => Len(log[i].recs) <= QUERY_CHUNK_SIZE

\* C19's case: a write of more records than one request holds, and a query
\* for more ids than one IN clause holds: a full request followed by another
\* of the same write, a full clause followed by another of the same query.
C19_Witness ==
    /\ \E i \in 1..Len(log) :
          /\ BulkWrite(log[i]) /\ Len(log[i].recs) = BATCH_SIZE
          /\ i < Len(log) /\ BulkWrite(log[i + 1])
          /\ log[i + 1].jobNo = log[i].jobNo /\ log[i + 1].obj = log[i].obj
    /\ \E i \in 1..Len(log) :
          /\ log[i].kind = "query" /\ Len(log[i].recs) = QUERY_CHUNK_SIZE
          /\ i < Len(log) /\ log[i + 1].kind = "query"
          /\ log[i + 1].obj = log[i].obj /\ log[i + 1].field = log[i].field
          /\ Len(log[i + 1].recs) > 0

\* The stages under which the failed results of bulk responses are logged.
BulkStages == {"insert", "upsert", "self-ref update", "link"}

\* C20: every error logged for a failed per-record result of a bulk
\* response (insert, upsert, self-reference update, content-link create)
\* carries the source id of the record that failed.
C20_BulkFailuresCarrySourceId ==
    \A k \in 1..Len(errors) :
        errors[k].stage \in BulkStages => errors[k].sourceId.org = "src"

\* The positions of the log at which a connection call rejected.
ThrowEvents == {i \in 1..Len(log) : log[i].kind = "throw"}

\* The run ended at call i of the log, with the exception and without a
\* value for the caller.
EndedAt(i) ==
    /\ i = Len(log)
    /\ pc = "thrown"
    /\ outcome = "exception"
    /\ ~received.bound

\* C21 (as stated): a connection call that throws during a query, a bulk
\* write or a file download, in any stage, ends the run there: it is the
\* last call made, no later stage runs and the exception reaches the caller.
C21_EveryThrowPropagates == \A i \in ThrowEvents : EndedAt(i)

\* C21 (amended): a connection call that throws outside the file loop ends
\* the run there; one that throws during a file's transfer is caught, is
\* logged as an 'upload' error for that file, and the stage goes on.
C21_UncaughtThrowPropagates ==
    \A i \in ThrowEvents :
        IF log[i].obj = "ContentVersion"
        THEN \E k \in 1..Len(errors) :
                /\ errors[k].stage = "upload"
                /\ errors[k].sourceId = log[i - 1].recs[1]
        ELSE EndedAt(i)

\* C21's case: the first five stages have run and a file was uploaded when
\* the bulk create of the content links threw and ended the run.
C21_Witness ==
    /\ pc = "thrown"
    /\ log[Len(log)].kind = "throw" /\ log[Len(log)].tier = "file"
    /\ \E i \in 1..Len(log) : log[i].kind = "create" /\ log[i].obj = "ContentVersion"
    /\ \E i \in 1..Len(log) : log[i].kind = "create" /\ log[i].tier = "grandchild"

\* C22: when runSeeder ends because a connection call threw, its caller
\* holds the per-object results and the error log gathered up to the throw.
C22_CallerReceivesResults ==
    outcome = "exception" =>
        /\ received.bound
        /\ received.results = results
        /\ received.errors = errors

\* The content links submitted to the target, as (request, position) pairs.
LinkCreates ==
    {i \in 1..Len(log) : log[i].kind = "create" /\ log[i].obj = "ContentDocumentLink"}

\* Source document srcDoc was uploaded before call i of the log, and the
\* target answered the query-back with document tgtDoc.
UploadedAs(srcDoc, tgtDoc, i) ==
    \E j \in 2..(i - 1) :
        /\ log[j].kind = "tquery" /\ log[j].obj = "ContentVersion"
        /\ log[j - 1].kind = "create" /\ log[j - 1].obj = "ContentVersion"
        /\ tgtDoc = Tid("ContentDocument", log[j].recs[1].n)
        /\ \E k \in 1..Len(SourceVersions) :
              /\ SourceVersions[k].Id = log[j - 1].recs[1]
              /\ SourceVersions[k].ContentDocumentId = srcDoc

\* C23: every content link submitted to the target stems from a source link
\* row whose document was uploaded in this run and whose linked entity has a
\* registry entry, and carries that target document id and that target id.
C23_LinksOnlyForUploaded ==
    \A i \in LinkCreates : \A k \in 1..Len(log[i].recs) :
        \E n \in 1..Len(SourceLinks) :
            /\ UploadedAs(SourceLinks[n].ContentDocumentId,
                          log[i].recs[k].ContentDocumentId, i)
            /\ Truthy(findInAnyIdMap(idMaps, SourceLinks[n].LinkedEntityId))
            /\ log[i].recs[k].LinkedEntityId =
                   findInAnyIdMap(idMaps, SourceLinks[n].LinkedEntityId)

\* C23's case: the document was uploaded and linked to the one entity of
\* its two source link rows that is in the registry.
C23_Witness ==
    /\ \E i \in LinkCreates : Len(log[i].recs) = 1
    /\ \E n \in 1..Len(SourceLinks) :
          ~Truthy(findInAnyIdMap(idMaps, SourceLinks[n].LinkedEntityId))

\* An id map as the set of its entries (the order of a Map's keys aside).
MapEntries(m) == {<<m[i].k, m[i].v>> : i \in 1..Len(m)}

\* The second of two real, completed runs that upsert the core object by the
\* same external-id field, on the target the first run filled.
UpsertAgain ==
    /\ prev.valid
    /\ ~prev.dryRun /\ ~config.dryRun
    /\ config.coreObject.externalIdField # ""
    /\ prev.config = config
    /\ prev.results.coreObject.inserted > 0
    /\ pc = "done"

C25_GrandchildrenOutOfScope ==
    \A g \in 1..Len(Grandchildren) :
        /\ Grandchildren[g].objectApiName # CoreName
        /\ \A c \in 1..Len(config.children) :
              Grandchildren[g].objectApiName # config.children[c].objectApiName

\* The core query has been built and sent.
CoreQueried == \E i \in 1..Len(log) : log[i].kind = "query" /\ log[i].tier = "core"

\* C26: the core query has no LIMIT clause only when the record count is
\* the sentinel All; for every other value of --count the command accepts
\* it carries LIMIT N, N the positive integer given.
C26_LimitUnlessAll ==
    CoreQueried =>
        IF config.recordCount = All
        THEN ~core.soql.hasLimit
        ELSE /\ core.soql.hasLimit
             /\ config.recordCount.kind = "number"
             /\ core.soql.limit = config.recordCount.n
             /\ core.soql.limit > 0

\* The per-object maps of the registry that have source id sid as a key.
MapsWith(sid) == {i \in 1..Len(idMaps) : MapHas(idMaps[i].map, sid)}

\* C27: at every point of a run, a source id is a key of at most one
\* per-object map of the registry, and that map is the one of the id's own
\* object, so the whole-registry lookup resolves an id to at most one target.
C27_OneMapPerSourceId ==
    \A i \in 1..Len(idMaps) : \A k \in 1..Len(idMaps[i].map) :
        /\ MapsWith(idMaps[i].map[k].k) = {i}
        /\ idMaps[i].map[k].k.o = idMaps[i].name
        /\ findInAnyIdMap(idMaps, idMaps[i].map[k].k) = idMaps[i].map[k].v

\* C27's case: a finished run whose registry holds entries of five objects
\* or more and whose file links were resolved through the whole registry.
C27_Witness ==
    /\ pc = "done"
    /\ Cardinality({i \in 1..Len(idMaps) : Len(idMaps[i].map) > 0}) >= 5
    /\ LinkCreates # {}

\* The stage of runSeeder at which the run stands: 0 before the call, 1..6
\* in the stages, 7 once runSeeder has returned or thrown (or the process
\* was ended by a second SIGINT).
StageAt(p, j) ==
    CASE p = "idle" -> 0
      [] p \in {"stage1", "deps", "core_written", "core_update", "check1"} -> 1
      [] p \in {"batch", "activity_written"} -> TierRank(j.tier)
      [] p \in {"children", "child_written"} -> 2
      [] p \in {"grandchildren", "grandchild_written"} -> 3
      [] p = "tasks" -> 4
      [] p = "events" -> 5
      [] p \in {"files", "upload", "links"} -> 6
      [] OTHER -> 7

\* How a run of the driver can have ended.
Endings == {"complete", "partial", "early", "exception"}

\* C28: a run passes through the stages in the order 1..6 and never goes
\* back to a stage it has left (no restart, whatever errors were logged),
\* and when runSeeder has returned or thrown, the run has exactly one of
\* the endings Done, PartialDone, EarlyDone, exception: the ending is set in
\* the step that ends the run and not before, EarlyDone only from Stage 1
\* with an empty core result, exception only by a throw.
C28_StageOrder ==
    [][/\ StageAt(pc, job) <= StageAt(pc', job')
       /\ pc' \in {"done", "thrown"} => outcome' \in Endings
       /\ pc' \notin {"done", "thrown"} => outcome' = ""
       /\ pc \in {"done", "thrown"} => (pc' = pc /\ outcome' = outcome)
       /\ outcome' = "exception" <=> pc' = "thrown"
       /\ (outcome' = "early" /\ outcome = "") => (pc = "check1" /\ CoreEmpty)
       /\ (outcome' = "partial" /\ outcome = "") => aborted]_vars

\* C28's case: a run that went through all six stages, logged per-record
\* errors on the way, and ended Done.
C28_Witness ==
    /\ pc = "done"
    /\ outcome = "complete"
    /\ Len(errors) > 0
    /\ \A t \in Tiers : \E i \in 1..Len(log) : log[i].tier = t

\* C29: for every per-object result of a run (core, child, grandchild,
\* Task, Event), queried = inserted + updated + failed + skipped; the core
\* counters in particular do not exceed what the core query returned.
C29_CountersAddUp ==
    \A r \in ObjectResults :
        r.queried = r.inserted + r.updated + r.failed + r.skipped

\* The step sends one bulk request of the core object's own write.
CoreWriteStep ==
    /\ pc = "batch" /\ job.tier = "core" /\ job.obj = CoreName
    /\ Len(log') > Len(log)
    /\ IsWrite(log'[Len(log) + 1])

\* The write sequence of the core object: the out-of-batch parents, none of
\* them a queried record, then the queried records in the query's order.
ParentsFirst(sourceIds) ==
    \E n \in 0..Len(sourceIds) :
        /\ SubSeq(sourceIds, n + 1, Len(sourceIds)) = core.sourceRecords
        /\ \A k \in 1..n : sourceIds[k] \notin Range(core.sourceRecords)

\* C30: in Stage 1 the out-of-batch self-reference parents come before the
\* queried records in the write sequence; the requests carry that sequence
\* in order, BATCH_SIZE records at a time; when a request is sent, the
\* answers to the earlier ones have been processed (every earlier record
\* the target accepted has its registry entry); and no record of a request
\* carries a self-reference field.
C30_CoreWriteOrder ==
    [][CoreWriteStep =>
        LET sent == Cardinality(CoreWrites) * BATCH_SIZE
            request == log'[Len(log) + 1]
        IN /\ ParentsFirst(job.sourceIds)
           /\ job.i = sent
           /\ request.recs = SubSeq(job.recs, sent + 1,
                                    Min(sent + BATCH_SIZE, Len(job.recs)))
           /\ \A k \in 1..sent :
                 job.sourceIds[k] \notin target.rejects
                     => MapHas(IdMapOf(idMaps, CoreName), job.sourceIds[k])
           /\ \A k \in 1..Len(request.recs) :
                 DOMAIN request.recs[k] \cap core.selfRefFields = {}]_vars

\* C30's case: the core write is over, it took more than one request, its
\* first record was an out-of-batch parent, and the queried records have a
\* self-reference field with a value.
C30_Witness ==
    /\ pc = "core_written"
    /\ Cardinality(CoreWrites) > 1
    /\ core.allRecordsToInsert[1] \notin Range(core.sourceRecords)
    /\ \E f \in core.selfRefFields :
          Truthy(SrcVal(source.shape, core.sourceRecords[1], f))

\* The fields seedCoreObject hands to the classifier that it does not pass
\* over: createable, of type reference, with at least one target.
Classified ==
    {f \in ReferenceFields(getObjectFields("source", CoreName)) :
        f.name \in InsertableFields(CoreName) \/ selfRefFieldCheck(f, CoreName)}

\* C31: every createable reference field of the root is in exactly one
\* bucket: SelfReference when its only target is the root, or when the root
\* is among its targets and not all of them are system objects;
\* DataDependency on X when the root is not a target and X is its one
\* non-system target; SystemReference in every other case.
C31_OneBucketByRule ==
    [][(pc = "stage1" /\ pc' = "deps") =>
        \A f \in Classified :
            LET nonSystem == f.referenceTo \ SYSTEM_LOOKUP_OBJECTS
                self == \/ f.referenceTo = {CoreName}
                        \/ (nonSystem # {} /\ CoreName \in f.referenceTo)
                dep == ~self /\ Cardinality(nonSystem) = 1
            IN /\ f.name \in core'.selfRefFields <=> self
               /\ f.name \in DOMAIN core'.dependencyFields <=> dep
               /\ dep => core'.dependencyFields[f.name] \in nonSystem
               /\ f.name \in core'.systemFields <=> (~self /\ ~dep)]_vars

\* C31's case: the root's fields have been classified, and among them are
\* one of each rule: a lookup to the root alone, a lookup to system objects
\* only, a polymorphic lookup that includes the root, one with a single
\* non-system target beside a system one, and one with two non-system targets.
C31_Witness ==
    /\ core.sourceRecords # <<>>
    /\ \E f \in Classified : f.referenceTo = {CoreName}
    /\ \E f \in Classified : f.referenceTo \subseteq SYSTEM_LOOKUP_OBJECTS
    /\ \E f \in Classified :
          CoreName \in f.referenceTo /\ f.referenceTo # {CoreName}
    /\ \E f \in Classified :
          /\ Cardinality(f.referenceTo \ SYSTEM_LOOKUP_OBJECTS) = 1
          /\ f.referenceTo \cap SYSTEM_LOOKUP_OBJECTS # {}
          /\ CoreName \notin f.referenceTo
    /\ \E f \in Classified :
          /\ Cardinality(f.referenceTo \ SYSTEM_LOOKUP_OBJECTS) > 1
          /\ CoreName \notin f.referenceTo

\* The step sends one bulk upsert and handles its answer.
UpsertStep ==
    /\ pc = "batch" /\ job.externalIdField # ""
    /\ Len(log') > Len(log)
    /\ log'[Len(log) + 1].kind = "upsert"

\* The target's records of an object that hold an external-id value.
Holding(recs, obj, v) == {t \in recs : t.obj = obj /\ t.ext = v}

\* C32: after batchUpsert has handled a batch of a real run, every record
\* of the batch the target accepted, with a non-empty external-id value,
\* has a registry entry, and the entry is the id of the target record that
\* holds that value (also when the answer carried no id and the entry came
\* from the query-back); an accepted record that matched a target record
\* counts as updated, any other accepted record as inserted.
C32_UpsertRegistersEveryId ==
    [][UpsertStep =>
        LET positions == (job.i + 1)..Min(job.i + BATCH_SIZE, Len(job.recs))
            accepted == {k \in positions : job.sourceIds[k] \notin target.rejects}
            value(k) == FieldOf(job.recs[k], job.externalIdField)
            matched == {k \in accepted :
                           Truthy(value(k)) /\ Holding(target.recs, job.obj, value(k)) # {}}
            map == IdMapOf(idMaps', job.obj)
        IN /\ \A k \in accepted :
                 Truthy(value(k)) =>
                     /\ MapHas(map, job.sourceIds[k])
                     /\ \E t \in Holding(target'.recs, job.obj, value(k)) :
                           MapGet(map, job.sourceIds[k]) = t.Id
           /\ job'.updated = job.updated + Cardinality(matched)
           /\ job'.inserted = job.inserted + Cardinality(accepted \ matched)]_vars

\* C32's case: an upsert batch whose records the target already held was
\* answered without ids, the query-back was sent, and the records of the
\* batch have their registry entries.
C32_Witness ==
    /\ pc = "batch"
    /\ job.externalIdField # ""
    /\ job.updated = BATCH_SIZE
    /\ job.i = BATCH_SIZE
    /\ log[Len(log)].kind = "tquery"
    /\ \A k \in 1..job.i : MapHas(IdMapOf(idMaps, job.obj), job.sourceIds[k])

\* The objects the root's data-dependency fields point at.
RootDependencyObjects ==
    {t \in CreateableObjects \cup {"Country"} :
        \E f \in Classified :
            /\ Bucket(f, CoreName) = "dependency"
            /\ f.referenceTo \ SYSTEM_LOOKUP_OBJECTS = {t}}

\* The ids the queried root records hold in their data-dependency fields.
ReferencedByRoot ==
    {SrcVal(source.shape, core.sourceRecords[k], f.name) :
        k \in 1..Len(core.sourceRecords), f \in Classified}

\* The step sends one bulk request of a dependency pull.
DependencyWriteStep ==
    /\ pc = "batch" /\ job.ret = "deps"
    /\ Len(log') > Len(log)
    /\ IsWrite(log'[Len(log) + 1])

\* C33: the records pulled in as Stage 1 data dependencies are written
\* without any non-null reference field and are registered under the
\* dependency object's name; Stage 1 queries a dependency object only for
\* the ids the root records refer to, touches no object that only a
\* dependency record refers to, and sends updates for the root alone.
C33_DependenciesOneLevel ==
    [][/\ DependencyWriteStep =>
            LET request == log'[Len(log) + 1]
                positions == (job.i + 1)..Min(job.i + BATCH_SIZE, Len(job.recs))
            IN /\ \A k \in 1..Len(request.recs) :
                     \A f \in ReferenceFields(getObjectFields("source", job.obj)) :
                         f.name \in DOMAIN request.recs[k] => request.recs[k][f.name] = NULL
               /\ \A k \in positions :
                     job.sourceIds[k] \notin target.rejects =>
                         /\ job.sourceIds[k].o = job.obj
                         /\ MapHas(IdMapOf(idMaps', job.obj), job.sourceIds[k])
       /\ \A i \in (Len(log) + 1)..Len(log') :
             (/\ log'[i].tier = "core" /\ log'[i].obj # CoreName
              /\ (IsWrite(log'[i]) \/ log'[i].kind = "query")) =>
                 /\ log'[i].obj \in RootDependencyObjects
                 /\ log'[i].kind \in {"query", "create"}
                 /\ log'[i].kind = "query" =>
                       Range(log'[i].recs) \subseteq ReferencedByRoot]_vars

\* C33's case: Region 1, which refers to a parent Region and to a Country,
\* was pulled in, written and registered under Region.
C33_Witness ==
    /\ pc = "core_written"
    /\ HasIdMap(idMaps, "Region")
    /\ MapHas(IdMapOf(idMaps, "Region"), Sid("Region", 1))
    /\ Truthy(SrcVal(source.shape, Sid("Region", 1), "Parent__c"))
    /\ Truthy(SrcVal(source.shape, Sid("Region", 1), "Country__c"))

\* The step with which the grandchild loop reaches a tier, the run not
\* aborted and no call failing.
GrandchildReached ==
    /\ pc = "grandchildren" /\ ~aborted
    /\ Len(log') > Len(log)
    /\ log'[Len(log) + 1] = Probe("grandchild")
    /\ pc' # "thrown"

\* The object has at least one registry entry.
HasEntries(obj) == \E i \in 1..Len(idMaps) : idMaps[i].name = obj /\ Len(idMaps[i].map) > 0

\* The queries and writes the step sends.
NewRequests ==
    {i \in (Len(log) + 1)..Len(log') : IsWrite(log'[i]) \/ log'[i].kind = "query"}

RegisteredIds == UNION {{idMaps[i].map[j].k : j \in 1..Len(idMaps[i].map)} : i \in 1..Len(idMaps)}

\* The activities of the type whose WhatId or WhoId is a registered id.
Matching(activityType) ==
    {r \in SourceRecords(activityType) :
        \/ SrcVal(source.shape, r, "WhatId") \in RegisteredIds
        \/ SrcVal(source.shape, r, "WhoId") \in RegisteredIds}

\* The records of the write requests sent for the job, one pair per record.
SentFor(jobNo) ==
    UNION {{<<i, k>> : k \in 1..Len(log[i].recs)} :
              i \in {n \in 1..Len(log) : IsWrite(log[n]) /\ log[n].jobNo = jobNo}}

\* C35: the Task stage and the Event stage prepare each activity whose
\* WhatId or WhoId is registered exactly once, however many of the two
\* queries and of their chunks return it; the stage sends each prepared
\* record to the target once and its queried counter counts each activity
\* once.
C35_ActivityOnce ==
    [][/\ (pc \in {"tasks", "events"} /\ job'.no # job.no) =>
            /\ \A i, j \in 1..Len(job'.sourceIds) :
                  job'.sourceIds[i] = job'.sourceIds[j] => i = j
            /\ Range(job'.sourceIds) = Matching(job'.obj)
            /\ Len(job'.recs) = Len(job'.sourceIds)
            /\ job'.queried = Cardinality(Matching(job'.obj))
       /\ (pc = "activity_written" /\ results' # results) =>
            /\ Cardinality(SentFor(job.no)) = (IF WriterDryRun THEN 0 ELSE Len(job.recs))
            /\ (IF job.obj = "Task" THEN results'.tasks ELSE results'.events).queried
                  = Cardinality(Range(job.sourceIds))]_vars

\* C35's case: Task 1, whose WhatId is a registered account and whose WhoId
\* is a registered contact, went through the Task stage's write.
C35_Witness ==
    /\ pc = "activity_written" /\ job.obj = "Task" /\ ~WriterDryRun
    /\ Sid("Task", 1) \in Range(job.sourceIds)
    /\ SrcVal(source.shape, Sid("Task", 1), "WhatId") \in RegisteredIds
    /\ SrcVal(source.shape, Sid("Task", 1), "WhoId") \in RegisteredIds

\* The step is the delivery of a SIGINT to the handler.
SigintStep ==
    /\ Len(log') = Len(log) + 1
    /\ log'[Len(log')].kind = "sigint"

\* C36: the first SIGINT of a run sets the abort flag and changes nothing
\* else, the driver staying where it is; a SIGINT that finds the flag set
\* ends the process at once, wherever the driver stands, and nothing runs
\* after the exit.
C36_SecondSigintExits ==
    [][/\ (SigintStep /\ ~aborted) =>
            /\ aborted' /\ pc' = pc
            /\ UNCHANGED <<target, idMaps, results, errors, outcome, job, loop, core,
                           files, received>>
       /\ (SigintStep /\ aborted) =>
            /\ pc' = "exited"
            /\ UNCHANGED <<target, idMaps, results, errors, job, loop, core, files,
                           received>>
       /\ pc # "exited"]_vars

\* C36's case: after the first SIGINT the run went on to send a write that
\* was in flight, and a second SIGINT then ended the process.
C36_Witness ==
    /\ pc = "exited"
    /\ \E i, j, k \in 1..Len(log) :
          /\ i < j /\ j < k /\ k = Len(log)
          /\ log[i].kind = "sigint" /\ IsWrite(log[j]) /\ log[k].kind = "sigint"

\* The source ids the run's errors report as failed inserts or upserts.
CountedFailed ==
    {errors[i].sourceId : i \in {n \in 1..Len(errors) : errors[n].stage \in {"insert", "upsert"}}}

\* C37: a source id has a registry entry only if the target accepted the
\* insert or upsert of its record in this run; no record reported as failed
\* has a registry entry.
C37_RegisteredOnlyIfAccepted ==
    /\ RegisteredIds \cap target.rejects = {}
    /\ RegisteredIds \cap CountedFailed = {}

\* The step sends a bulk insert or upsert.
SubmitStep ==
    /\ pc = "batch"
    /\ Len(log') > Len(log)
    /\ log'[Len(log) + 1].kind \in {"create", "upsert"}

\* C38: within one run no source record is sent to the target for insert or
\* upsert a second time: a request never carries a record whose source id
\* the registry already holds from an earlier accepted request.
C38_SubmittedAtMostOnce ==
    [][SubmitStep =>
          \A k \in (job.i + 1)..Min(job.i + BATCH_SIZE, Len(job.recs)) :
              job.sourceIds[k] \notin RegisteredIds]_vars

\* C39: after a real file stage every source version counts as uploaded or
\* as failed and never as both: filesUploaded + filesFailed = filesFound.
C39_FileCountersAddUp ==
    (~config.dryRun /\ results.files.filesFound >= 0) =>
        results.files.filesUploaded + results.files.filesFailed
            = results.files.filesFound

\* A step of the driver (any step but the delivery of a signal).
DriverStep == vars' # vars /\ ~SigintStep

\* Where the driver stands inside one pass of a stage.
Position(p) ==
    CASE p \in {"batch", "upload"} -> 1
      [] p \in {"deps", "links"} -> 2
      [] p \in {"core_written", "child_written", "grandchild_written",
                "activity_written"} -> 3
      [] p = "core_update" -> 4
      [] p = "check1" -> 5
      [] OTHER -> 0

\* How far the invocation has come: the stage, the child and grandchild
\* loops, the writer calls made, the place inside the pass, the dependency
\* objects handled, the counters of the batch, update, file and link loops,
\* and the hand-over of the result.
Progress(p, l, j, c, f, r) ==
    <<StageAt(p, j), l.ci, l.gi, j.no, Position(p), 0 - Len(c.deps), j.i, c.ui, f.vi,
      f.li, IF r.bound THEN 1 ELSE 0>>

\* Lexicographic order on tuples of the same length.
Before(a, b) == \E k \in 1..Len(a) : a[k] < b[k] /\ \A n \in 1..(k - 1) : a[n] = b[n]

\* Every loop the driver stands in has its condition true.
InsideLoops(p, l, j, c, f) ==
    /\ p = "batch" => j.i < Len(j.recs)
    /\ p = "core_update" => c.ui < Len(c.updates)
    /\ p = "children" => l.ci <= Len(config.children)
    /\ p = "grandchildren" => l.gi <= Len(Grandchildren)
    /\ p = "upload" => f.vi < Len(f.versions)
    /\ p = "links" => f.li < Len(f.newLinks)

\* C40: every step of the driver takes the invocation strictly forward in
\* the order stage, child, grandchild, writer call, place in the pass,
\* loop counter, and leaves it inside a loop only while the loop's condition
\* holds; no stage and no loop is entered again, so the invocation makes
\* finitely many steps and then has returned, thrown or exited.
C40_Terminates ==
    [][DriverStep =>
          /\ Before(Progress(pc, loop, job, core, files, received),
                    Progress(pc', loop', job', core', files', received'))
          /\ InsideLoops(pc', loop', job', core', files')]_vars

\* C40's case: an invocation that went through a writer loop of more than
\* one request, the child loop, the grandchild loop, the Task stage and the
\* file loop, and returned.
C40_Witness ==
    /\ pc = "done" /\ outcome = "complete" /\ received.bound
    /\ loop.ci > 1 /\ loop.gi > 1
    /\ files.vi > 0
    /\ results.tasks.queried > 0
    /\ \E i, j \in 1..Len(log) :
          i < j /\ IsWrite(log[i]) /\ IsWrite(log[j]) /\ log[i].jobNo = log[j].jobNo

====
